---- MODULE Spec2Model ----
(***************************************************************************)
(* A model of the slang compiler front end: the position-based lexer       *)
(* (scan_token / lexer_next_token / lexer_peek_token), the recursive       *)
(* descent parser built on it (parser_parse_statement,                     *)
(* parser_parse_expression), the structural type system                    *)
(* (type_is_compatible_with, type_can_own) and type inference (type_infer, *)
(* type_check); the scanning lexer (lexer_scan) with the parser over its   *)
(* token vector (parser_parse, parser_synchronize); and the code generator *)
(* (codegen_new_label, codegen_emit_statement, codegen_emit_function).     *)
(*                                                                         *)
(* Source text is a sequence of one-character strings; the terminating NUL *)
(* of the C string is the value NUL read at index Len(source).             *)
(***************************************************************************)
EXTENDS Integers, Sequences, FiniteSets, TLC

VARIABLES
    source,        \* lexer->source, the text being scanned
    lexer,         \* [start, current, line] of the Lexer
    op,            \* the lexer operation performed last
    token,         \* the Token returned by the last lexer operation
    ub,            \* what a read of an uninitialised Token.value produces
    stmt_result,   \* result of parser_parse_statement on source
    expr_result,   \* result of parser_parse_expression on source
    fn_result,     \* result of parser_parse_function on source
    pphase,        \* position of the parser driver
    lexer2,        \* the scanning Lexer: [start, current, line, column, tokens]
    sphase,        \* position of the scanning lexer's driver
    parser,        \* the Parser over lexer2.tokens, with the static cursor
    rphase,        \* position of the recursive-descent parser's driver
    parse_result,  \* what parser_parse returned: error and declarations
    sync_entry,    \* the parser as the last parser_synchronize found it
    context,       \* the CodeGenContext: label counter and lines written
    gen_node,      \* the node handed to the last codegen_emit_* call
    gen_entry,     \* the CodeGenContext as that call found it
    gen_count,     \* number of codegen_emit_* calls made on the context
    gphase,        \* position of the code generator's driver
    gen_result,    \* the SlangError codegen_generate returned
    released,      \* addresses of string texts handed to free, in order
    cphase,        \* position of compile: the stage it has completed
    stages,        \* the stages compile has run, each with what it returned
    objects,       \* per lexer, parser and AST of compile: times created, destroyed
    compile_result, \* the SlangError compile returned
    statics,       \* the static cursors of lexer_next_token and lexer_peek_token
    lexers,        \* the token vectors of the lexers created in the process
    reads,         \* per lexer, the Token pointers lexer_next_token returned
    type1,         \* first argument of type_is_compatible_with / type_can_own
    type2,         \* second argument
    compat_result, \* value returned by type_is_compatible_with(type1, type2)
    own_result,    \* value returned by type_can_own(type1, type2)
    tphase,        \* position of the type-system driver
    node,          \* the ASTNode handed to type_infer / type_check
    inferred,      \* value returned by type_infer(node)
    check_result,  \* value returned by type_check(node)
    iphase         \* position of the inference driver

vars == <<source, lexer, op, token, ub, stmt_result, expr_result, fn_result, pphase,
          lexer2, sphase, parser, rphase, parse_result, sync_entry,
          context, gen_node, gen_entry, gen_count, gphase, gen_result, released,
          cphase, stages, objects, compile_result, statics, lexers, reads,
          type1, type2, compat_result, own_result, tphase,
          node, inferred, check_result, iphase>>

lexerVars  == <<source, lexer, op, token>>
parserVars == <<ub, stmt_result, expr_result, fn_result, pphase>>
scanVars   == <<lexer2, sphase>>
descentVars == <<parser, rphase, parse_result, sync_entry>>
genVars    == <<context, gen_node, gen_entry, gen_count, gphase, gen_result, released>>
compileVars == <<cphase, stages, objects, compile_result>>
processVars == <<statics, lexers, reads>>
typeVars   == <<type1, type2, compat_result, own_result, tphase>>
inferVars  == <<node, inferred, check_result, iphase>>

(***************************************************************************)
(* Bounds of the model.                                                    *)
(***************************************************************************)
MaxSrcLen == 3      \* longest source text enumerated for the lexer
MaxLine == 4        \* peeks are explored while the line counter is below this

(***************************************************************************)
(* Characters.                                                             *)
(***************************************************************************)
\* A C local variable: v is computed once, where the statement stands, and
\* Body reads it under the name of its parameter
Let(v, Body(_)) == CHOOSE r \in {Body(x) : x \in {v}} : TRUE

NUL == "NUL"

Letters == {"a","b","c","d","e","f","g","h","i","j","k","l","m","n","o","p",
            "q","r","s","t","u","v","w","x","y","z"}

Digits == {"0","1","2","3","4","5","6","7","8","9"}

isalpha(c) == c \in Letters

isdigit(c) == c \in Digits

isalnum(c) == isalpha(c) \/ isdigit(c)

\* source[i] of the C string, the NUL included
CharAt(src, i) == IF i < Len(src) THEN src[i + 1] ELSE NUL

is_at_end(src, lx) == lx.current >= Len(src)

peek(src, lx) == CharAt(src, lx.current)

peek_next(src, lx) == IF is_at_end(src, lx) THEN NUL ELSE CharAt(src, lx.current + 1)

advance(lx) == [lx EXCEPT !.current = @ + 1]

\* match(): consumes the character only when it is the expected one
match(src, lx, expected) ==
    IF is_at_end(src, lx) THEN [ok |-> FALSE, lx |-> lx]
    ELSE IF CharAt(src, lx.current) # expected THEN [ok |-> FALSE, lx |-> lx]
    ELSE [ok |-> TRUE, lx |-> advance(lx)]

RECURSIVE SkipComment(_, _)
SkipComment(src, lx) ==
    IF peek(src, lx) # "\n" /\ ~is_at_end(src, lx)
    THEN SkipComment(src, advance(lx))
    ELSE lx

RECURSIVE skip_whitespace(_, _)
skip_whitespace(src, lx) ==
    LET c == peek(src, lx) IN
    IF c \in {" ", "\r", "\t"} THEN skip_whitespace(src, advance(lx))
    ELSE IF c = "\n" THEN skip_whitespace(src, advance([lx EXCEPT !.line = @ + 1]))
    ELSE IF c = "/" THEN
        IF peek_next(src, lx) = "/"
        THEN skip_whitespace(src, SkipComment(src, lx))
        ELSE lx
    ELSE lx

(***************************************************************************)
(* Tokens.  start = -1 stands for a start pointer that does not point into *)
(* the source (NULL of a zero-initialised token, or a message literal).    *)
(***************************************************************************)
NoValue == [kind |-> "none", mant |-> 0, scale |-> 0, text |-> <<>>]

\* Token.value is never written for this token: reading it is a read of
\* an uninitialised value
UninitValue == [kind |-> "uninit", mant |-> 0, scale |-> 0, text |-> <<>>]

NumberValue(m, s) == [kind |-> "number", mant |-> m, scale |-> s, text |-> <<>>]

StringValue(t) == [kind |-> "string", mant |-> 0, scale |-> 0, text |-> t]

\* Token token = {0}; token.type = type;
ZeroToken(type) ==
    [type |-> type, start |-> -1, length |-> 0, line |-> 0,
     message |-> "", value |-> NoValue]

make_token(lx, type) ==
    [type |-> type, start |-> lx.start, length |-> lx.current - lx.start,
     line |-> lx.line, message |-> "", value |-> UninitValue]

error_token(lx, msg) ==
    [type |-> "TOKEN_ERROR", start |-> -1, length |-> 20, line |-> lx.line,
     message |-> msg, value |-> UninitValue]

Lexeme(src, lx) == SubSeq(src, lx.start + 1, lx.current)

RECURSIVE ScanString(_, _)
ScanString(src, lx) ==
    IF peek(src, lx) # "\"" /\ ~is_at_end(src, lx)
    THEN ScanString(src, advance(IF peek(src, lx) = "\n"
                                 THEN [lx EXCEPT !.line = @ + 1] ELSE lx))
    ELSE lx

\* string() without the test for the end of the input: the closing quote is
\* consumed whether it is there or not
StringWithoutEndCheck(src, lx0) ==
    Let(advance(ScanString(src, lx0)), LAMBDA lx2 :
    [lx |-> lx2, token |-> make_token(lx2, "TOKEN_STRING")])

string(src, lx0) ==
    Let(ScanString(src, lx0), LAMBDA lx1 :
    IF is_at_end(src, lx1)
    THEN [lx |-> lx1, token |-> error_token(lx1, "Unterminated string.")]
    ELSE Let(advance(lx1), LAMBDA lx2 :
         Let(SubSeq(src, lx2.start + 2, lx2.current - 1), LAMBDA str :
         [lx |-> lx2,
          token |-> [make_token(lx2, "TOKEN_STRING") EXCEPT !.value = StringValue(str)]])))

RECURSIVE ScanDigits(_, _)
ScanDigits(src, lx) ==
    IF isdigit(peek(src, lx)) THEN ScanDigits(src, advance(lx)) ELSE lx

DigitVal(c) ==
    CASE c = "0" -> 0 [] c = "1" -> 1 [] c = "2" -> 2 [] c = "3" -> 3
      [] c = "4" -> 4 [] c = "5" -> 5 [] c = "6" -> 6 [] c = "7" -> 7
      [] c = "8" -> 8 [] c = "9" -> 9

RECURSIVE DigitsVal(_)
DigitsVal(ds) ==
    IF ds = <<>> THEN 0
    ELSE 10 * DigitsVal(SubSeq(ds, 1, Len(ds) - 1)) + DigitVal(ds[Len(ds)])

RECURSIVE DotIndex(_, _)
DotIndex(s, i) ==
    IF i > Len(s) THEN 0 ELSE IF s[i] = "." THEN i ELSE DotIndex(s, i + 1)

\* atof() of a lexeme of the form digits or digits.digits: the decimal value
\* mant / 10^scale
atof(s) ==
    LET d == DotIndex(s, 1) IN
    IF d = 0 THEN NumberValue(DigitsVal(s), 0)
    ELSE NumberValue(DigitsVal(SubSeq(s, 1, d - 1) \o SubSeq(s, d + 1, Len(s))),
                     Len(s) - d)

number(src, lx0) ==
    Let(ScanDigits(src, lx0), LAMBDA lx1 :
    Let(IF peek(src, lx1) = "." /\ isdigit(peek_next(src, lx1))
        THEN ScanDigits(src, advance(lx1))
        ELSE lx1, LAMBDA lx2 :
    [lx |-> lx2,
     token |-> [make_token(lx2, "TOKEN_NUMBER") EXCEPT !.value = atof(Lexeme(src, lx2))]]))

check_keyword(lexeme, start, rest, type) ==
    IF Len(lexeme) = start + Len(rest)
       /\ SubSeq(lexeme, start + 1, start + Len(rest)) = rest
    THEN type
    ELSE "TOKEN_IDENTIFIER"

identifier_type(lexeme) ==
    LET c0 == lexeme[1]
        c1 == lexeme[2]
    IN
    CASE c0 = "a" -> check_keyword(lexeme, 1, <<"n","d">>, "TOKEN_AND")
      [] c0 = "c" -> check_keyword(lexeme, 1, <<"l","a","s","s">>, "TOKEN_CLASS")
      [] c0 = "e" -> check_keyword(lexeme, 1, <<"l","s","e">>, "TOKEN_ELSE")
      [] c0 = "f" ->
            IF Len(lexeme) > 1 THEN
                CASE c1 = "a" -> check_keyword(lexeme, 2, <<"l","s","e">>, "TOKEN_FALSE")
                  [] c1 = "o" -> check_keyword(lexeme, 2, <<"r">>, "TOKEN_FOR")
                  [] c1 = "n" -> check_keyword(lexeme, 2, <<>>, "TOKEN_FUNCTION")
                  [] OTHER -> "TOKEN_IDENTIFIER"
            ELSE "TOKEN_IDENTIFIER"
      [] c0 = "i" ->
            IF Len(lexeme) > 1 THEN
                CASE c1 = "f" -> check_keyword(lexeme, 2, <<>>, "TOKEN_IF")
                  [] c1 = "n" -> check_keyword(lexeme, 2, <<>>, "TOKEN_IN")
                  [] OTHER -> "TOKEN_IDENTIFIER"
            ELSE "TOKEN_IDENTIFIER"
      [] c0 = "m" -> check_keyword(lexeme, 1, <<"a","t","c","h">>, "TOKEN_MATCH")
      [] c0 = "n" -> check_keyword(lexeme, 1, <<"u","l","l">>, "TOKEN_NULL")
      [] c0 = "o" -> check_keyword(lexeme, 1, <<"r">>, "TOKEN_OR")
      [] c0 = "p" -> check_keyword(lexeme, 1, <<"r","i","n","t">>, "TOKEN_PRINT")
      [] c0 = "r" -> check_keyword(lexeme, 1, <<"e","t","u","r","n">>, "TOKEN_RETURN")
      [] c0 = "s" -> check_keyword(lexeme, 1, <<"u","p","e","r">>, "TOKEN_SUPER")
      [] c0 = "t" ->
            IF Len(lexeme) > 1 THEN
                CASE c1 = "h" -> check_keyword(lexeme, 2, <<"i","s">>, "TOKEN_THIS")
                  [] c1 = "r" -> check_keyword(lexeme, 2, <<"u","e">>, "TOKEN_TRUE")
                  [] c1 = "y" -> check_keyword(lexeme, 2, <<"p","e">>, "TOKEN_TYPE")
                  [] OTHER -> "TOKEN_IDENTIFIER"
            ELSE "TOKEN_IDENTIFIER"
      [] c0 = "v" -> check_keyword(lexeme, 1, <<"a","r">>, "TOKEN_VAR")
      [] c0 = "w" -> check_keyword(lexeme, 1, <<"h","i","l","e">>, "TOKEN_WHILE")
      [] OTHER -> "TOKEN_IDENTIFIER"

RECURSIVE ScanIdentChars(_, _)
ScanIdentChars(src, lx) ==
    IF isalnum(peek(src, lx)) \/ peek(src, lx) = "_"
    THEN ScanIdentChars(src, advance(lx))
    ELSE lx

identifier(src, lx0) ==
    Let(ScanIdentChars(src, lx0), LAMBDA lx1 :
    [lx |-> lx1, token |-> make_token(lx1, identifier_type(Lexeme(src, lx1)))])

\* One-character tokens of the switch in scan_token
SingleCharType(c) ==
    CASE c = "(" -> "TOKEN_LEFT_PAREN"
      [] c = ")" -> "TOKEN_RIGHT_PAREN"
      [] c = "{" -> "TOKEN_LEFT_BRACE"
      [] c = "}" -> "TOKEN_RIGHT_BRACE"
      [] c = "[" -> "TOKEN_LEFT_BRACKET"
      [] c = "]" -> "TOKEN_RIGHT_BRACKET"
      [] c = ";" -> "TOKEN_SEMICOLON"
      [] c = "," -> "TOKEN_COMMA"
      [] c = "." -> "TOKEN_DOT"
      [] c = "-" -> "TOKEN_MINUS"
      [] c = "+" -> "TOKEN_PLUS"
      [] c = "/" -> "TOKEN_SLASH"
      [] c = "*" -> "TOKEN_STAR"
      [] OTHER -> "TOKEN_ERROR"

TwoCharType(c, matched) ==
    CASE c = "!" -> IF matched THEN "TOKEN_BANG_EQUAL" ELSE "TOKEN_BANG"
      [] c = "=" -> IF matched THEN "TOKEN_EQUAL_EQUAL" ELSE "TOKEN_EQUAL"
      [] c = "<" -> IF matched THEN "TOKEN_LESS_EQUAL" ELSE "TOKEN_LESS"
      [] c = ">" -> IF matched THEN "TOKEN_GREATER_EQUAL" ELSE "TOKEN_GREATER"

scan_token(src, lx0) ==
    Let(skip_whitespace(src, lx0), LAMBDA lxw :
    Let([lxw EXCEPT !.start = lxw.current], LAMBDA lx1 :
    IF is_at_end(src, lx1) THEN [lx |-> lx1, token |-> ZeroToken("TOKEN_EOF")]
    ELSE
        Let(CharAt(src, lx1.current), LAMBDA c :
        Let(advance(lx1), LAMBDA lx2 :
        IF isalpha(c) \/ c = "_" THEN identifier(src, lx2)
        ELSE IF isdigit(c) THEN number(src, lx2)
        ELSE IF c \in {"!", "=", "<", ">"} THEN
            Let(match(src, lx2, "="), LAMBDA m :
            [lx |-> m.lx, token |-> ZeroToken(TwoCharType(c, m.ok))])
        ELSE IF c = "\"" THEN string(src, lx2)
        ELSE [lx |-> lx2, token |-> ZeroToken(SingleCharType(c))]))))

lexer_init == [start |-> 0, current |-> 0, line |-> 1]

lexer_next_token(src, lx) == scan_token(src, lx)

lexer_peek_token(src, lx) ==
    Let(lexer_next_token(src, lx), LAMBDA r :
    [lx |-> [r.lx EXCEPT !.current = lx.current], token |-> r.token])

lexer_is_at_end(src, lx) == CharAt(src, lx.current) = NUL

(***************************************************************************)
(* The scanning lexer: lexer_scan runs over the whole source once and      *)
(* pushes every token onto lexer->tokens.  The Lexer is the record         *)
(* [start, current, line, column, tokens]; a pushed Token is               *)
(* [type, lexeme, line, column].                                           *)
(***************************************************************************)
keywords ==
    << <<<<"f","n">>, "TOKEN_FN">>,
       <<<<"l","e","t">>, "TOKEN_LET">>,
       <<<<"i","f">>, "TOKEN_IF">>,
       <<<<"e","l","s","e">>, "TOKEN_ELSE">>,
       <<<<"w","h","i","l","e">>, "TOKEN_WHILE">>,
       <<<<"f","o","r">>, "TOKEN_FOR">>,
       <<<<"r","e","t","u","r","n">>, "TOKEN_RETURN">>,
       <<<<"b","r","e","a","k">>, "TOKEN_BREAK">>,
       <<<<"c","o","n","t","i","n","u","e">>, "TOKEN_CONTINUE">>,
       <<<<"s","t","r","u","c","t">>, "TOKEN_STRUCT">>,
       <<<<"i","m","p","l">>, "TOKEN_IMPL">>,
       <<<<"t","r","a","i","t">>, "TOKEN_TRAIT">>,
       <<<<"u","s","e">>, "TOKEN_USE">>,
       <<<<"p","u","b">>, "TOKEN_PUB">>,
       <<<<"p","r","i","v">>, "TOKEN_PRIV">> >>

lexer_create(src) ==
    [start |-> 0, current |-> 0, line |-> 1, column |-> 1, tokens |-> <<>>]

lexer_current(src, lx) == CharAt(src, lx.current)

\* the character returned is lexer_current before the call
lexer_advance(lx) == [lx EXCEPT !.current = @ + 1, !.column = @ + 1]

lexer_peek(src, lx) == CharAt(src, lx.current)

lexer_peek_next(src, lx) ==
    IF lx.current + 1 >= Len(src) THEN NUL ELSE CharAt(src, lx.current + 1)

lexer_get_lexeme(src, lx) == SubSeq(src, lx.start + 1, lx.current)

lexer_add_token(src, lx, type) ==
    [lx EXCEPT !.tokens =
        Append(@, [type |-> type,
                   lexeme |-> lexer_get_lexeme(src, lx),
                   line |-> lx.line,
                   column |-> lx.column - (lx.current - lx.start)])]

\* the for loop over the keyword table: the first entry equal to the lexeme
RECURSIVE KeywordLookup(_, _)
KeywordLookup(lexeme, k) ==
    IF k > Len(keywords) THEN "TOKEN_IDENTIFIER"
    ELSE IF lexeme = keywords[k][1] THEN keywords[k][2]
    ELSE KeywordLookup(lexeme, k + 1)

RECURSIVE ScanAlnum(_, _)
ScanAlnum(src, lx) ==
    IF isalnum(lexer_peek(src, lx)) \/ lexer_peek(src, lx) = "_"
    THEN ScanAlnum(src, lexer_advance(lx))
    ELSE lx

lexer_identifier(src, lx0) ==
    Let(ScanAlnum(src, lx0), LAMBDA lx1 :
    lexer_add_token(src, lx1, KeywordLookup(lexer_get_lexeme(src, lx1), 1)))

RECURSIVE ScanDigitRun(_, _)
ScanDigitRun(src, lx) ==
    IF isdigit(lexer_peek(src, lx)) THEN ScanDigitRun(src, lexer_advance(lx)) ELSE lx

lexer_number(src, lx0) ==
    Let(ScanDigitRun(src, lx0), LAMBDA lx1 :
    IF lexer_peek(src, lx1) = "." /\ isdigit(lexer_peek_next(src, lx1))
    THEN lexer_add_token(src, ScanDigitRun(src, lexer_advance(lx1)), "TOKEN_FLOAT")
    ELSE lexer_add_token(src, lx1, "TOKEN_INTEGER"))

RECURSIVE ScanStringBody(_, _)
ScanStringBody(src, lx) ==
    IF lexer_peek(src, lx) # "\"" /\ lexer_peek(src, lx) # NUL
    THEN ScanStringBody(src,
            lexer_advance(IF lexer_peek(src, lx) = "\n"
                          THEN [lx EXCEPT !.line = @ + 1, !.column = 1]
                          ELSE lx))
    ELSE lx

lexer_string(src, lx0) ==
    Let(ScanStringBody(src, lx0), LAMBDA lx1 :
    IF lexer_peek(src, lx1) = NUL
    THEN lexer_add_token(src, lx1, "TOKEN_ERROR")
    ELSE lexer_add_token(src, lexer_advance(lx1), "TOKEN_STRING"))

RECURSIVE lexer_comment(_, _)
lexer_comment(src, lx) ==
    IF lexer_peek(src, lx) # "\n" /\ lexer_peek(src, lx) # NUL
    THEN lexer_comment(src, lexer_advance(lx))
    ELSE lx

\* the one-character cases of the switch in lexer_scan
PunctuationType(c) ==
    CASE c = "(" -> "TOKEN_LPAREN"
      [] c = ")" -> "TOKEN_RPAREN"
      [] c = "{" -> "TOKEN_LBRACE"
      [] c = "}" -> "TOKEN_RBRACE"
      [] c = ";" -> "TOKEN_SEMICOLON"
      [] c = "," -> "TOKEN_COMMA"
      [] c = "." -> "TOKEN_DOT"
      [] c = "+" -> "TOKEN_PLUS"
      [] c = "*" -> "TOKEN_STAR"
      [] c = "%" -> "TOKEN_PERCENT"

\* one iteration of the while loop of lexer_scan
ScanOne(src, lx0) ==
    Let(lexer_current(src, lx0), LAMBDA c :
    Let(lexer_advance([lx0 EXCEPT !.start = lx0.current]), LAMBDA lx :
    IF c \in {"(", ")", "{", "}", ";", ",", ".", "+", "*", "%"}
        THEN lexer_add_token(src, lx, PunctuationType(c))
    ELSE IF c = "-" THEN
        IF lexer_peek(src, lx) = ">"
        THEN lexer_add_token(src, lexer_advance(lx), "TOKEN_ARROW")
        ELSE lexer_add_token(src, lx, "TOKEN_MINUS")
    ELSE IF c = "/" THEN
        IF lexer_peek(src, lx) = "/"
        THEN lexer_comment(src, lx)
        ELSE lexer_add_token(src, lx, "TOKEN_SLASH")
    ELSE IF c = "=" THEN
        IF lexer_peek(src, lx) = "="
        THEN lexer_add_token(src, lexer_advance(lx), "TOKEN_EQ")
        ELSE lexer_add_token(src, lx, "TOKEN_EQUAL")
    ELSE IF c = "!" THEN
        IF lexer_peek(src, lx) = "="
        THEN lexer_add_token(src, lexer_advance(lx), "TOKEN_NEQ")
        ELSE lx
    ELSE IF c = "<" THEN
        IF lexer_peek(src, lx) = "="
        THEN lexer_add_token(src, lexer_advance(lx), "TOKEN_LE")
        ELSE lexer_add_token(src, lx, "TOKEN_LT")
    ELSE IF c = ">" THEN
        IF lexer_peek(src, lx) = "="
        THEN lexer_add_token(src, lexer_advance(lx), "TOKEN_GE")
        ELSE lexer_add_token(src, lx, "TOKEN_GT")
    ELSE IF c = "\"" THEN lexer_string(src, lx)
    ELSE IF c \in {" ", "\r", "\t"} THEN lx
    ELSE IF c = "\n" THEN [lx EXCEPT !.line = @ + 1, !.column = 1]
    ELSE IF isdigit(c) THEN lexer_number(src, lx)
    ELSE IF isalpha(c) \/ c = "_" THEN lexer_identifier(src, lx)
    ELSE lexer_add_token(src, lx, "TOKEN_ERROR")))

RECURSIVE ScanLoop(_, _)
ScanLoop(src, lx) ==
    IF lexer_peek(src, lx) # NUL THEN ScanLoop(src, ScanOne(src, lx)) ELSE lx

\* a scan that pushes an end-of-input token before the first character too
ScanWithLeadingEof(src) ==
    lexer_add_token(src, ScanLoop(src, lexer_add_token(src, lexer_create(src), "TOKEN_EOF")),
                    "TOKEN_EOF")

\* the Lexer after lexer_scan: every token pushed, TOKEN_EOF last
lexer_scan(src) ==
    lexer_add_token(src, ScanLoop(src, lexer_create(src)), "TOKEN_EOF")

(***************************************************************************)
(* Types as the parser and the type system build them.  Every type is a    *)
(* record of the same shape: kind is the discriminant, dims the shape      *)
(* numbers (vector dimension; matrix rows, columns; tensor dimensions),    *)
(* elems the component types (element type; tuple members; function        *)
(* parameters followed by the return type), name the name of a named type  *)
(* and prio the priority attached to a function type.                      *)
(***************************************************************************)
Ty(kind, dims, elems, name, prio) ==
    [kind |-> kind, dims |-> dims, elems |-> elems, name |-> name, prio |-> prio]

\* a NULL Type pointer
NullType == Ty("NULL", <<>>, <<>>, <<>>, 0)

Scalar(kind) == Ty(kind, <<>>, <<>>, <<>>, 0)

NamedType(name) == Ty("TYPE_NAMED", <<>>, <<>>, name, 0)

ArrayType(e) == Ty("TYPE_ARRAY", <<>>, <<e>>, <<>>, 0)

TupleType(ts) == Ty("TYPE_TUPLE", <<>>, ts, <<>>, 0)

(***************************************************************************)
(* AST nodes built by the create_*_node constructors.                      *)
(***************************************************************************)
NoNode == [type |-> "none"]

create_integer_literal_node(v) == [type |-> "NODE_INTEGER_LITERAL", ivalue |-> v]

create_float_literal_node(v) == [type |-> "NODE_FLOAT_LITERAL", fvalue |-> v]

create_string_literal_node(t) == [type |-> "NODE_STRING_LITERAL", text |-> t]

create_boolean_literal_node(b) == [type |-> "NODE_BOOLEAN_LITERAL", bvalue |-> b]

create_variable_reference_node(name) == [type |-> "NODE_VARIABLE_REFERENCE", text |-> name]

create_function_call_node(name, args) ==
    [type |-> "NODE_FUNCTION_CALL", text |-> name, kids |-> args]

create_binary_expression_node(l, operator, r) ==
    [type |-> "NODE_BINARY_EXPRESSION", text |-> operator, kids |-> <<l, r>>]

create_let_statement_node(name, type, initializer) ==
    [type |-> "NODE_LET_STATEMENT", text |-> name, annot |-> type,
     kids |-> <<initializer>>]

\* value is NoNode for `return;`
create_expression_statement_node(value) ==
    [type |-> "NODE_EXPRESSION_STATEMENT", kids |-> <<value>>]

(***************************************************************************)
(* The parser over the position-based lexer.  Every operator returns       *)
(* [err, lx, node]: err = "" is the NULL SlangError* of success, lx the     *)
(* lexer state it leaves behind.                                           *)
(*                                                                         *)
(* strdup(token.value.string) of an identifier token reads a Token.value   *)
(* that identifier()/make_token never wrote.  u is what that read does in  *)
(* the build at hand: "fault" (the process dies in strdup) or "garbage"    *)
(* (some bytes are copied).                                                *)
(***************************************************************************)
UBOutcomes == {"fault", "garbage"}

Garbage == <<"?">>

Fault == "fault: strdup of uninitialised Token.value"

POk(lx, n) == [err |-> "", lx |-> lx, node |-> n]

PErr(lx, msg) == [err |-> msg, lx |-> lx, node |-> NoNode]

RECURSIVE Pow10(_)
Pow10(n) == IF n = 0 THEN 1 ELSE 10 * Pow10(n - 1)

\* (int)token.value.number for a value that fits an int: truncation
IntCast(v) == v.mant \div Pow10(v.scale)

parser_expect(src, lx, expected) ==
    Let(lexer_next_token(src, lx), LAMBDA r :
    IF r.token.type # expected THEN PErr(r.lx, "Unexpected token")
    ELSE POk(r.lx, NoNode))

\* on success the name is carried in node.text
parser_parse_identifier(u, src, lx) ==
    Let(lexer_next_token(src, lx), LAMBDA r :
    IF r.token.type # "TOKEN_IDENTIFIER" THEN PErr(r.lx, "Expected identifier")
    ELSE IF r.token.value.kind = "uninit" /\ u = "fault" THEN PErr(r.lx, Fault)
    ELSE POk(r.lx, [type |-> "name",
                    text |-> IF r.token.value.kind = "uninit" THEN Garbage
                             ELSE r.token.value.text]))

RECURSIVE parser_parse_type(_, _, _)
RECURSIVE ParseTupleTypes(_, _, _, _)

\* the while (1) loop of the tuple branch; node carries the collected types
ParseTupleTypes(u, src, lx, types) ==
    Let(parser_parse_type(u, src, lx), LAMBDA e :
    IF e.err # "" THEN e
    ELSE Let(Append(types, e.node), LAMBDA types1 :
         Let(lexer_peek_token(src, e.lx), LAMBDA p :
         IF p.token.type = "TOKEN_RIGHT_PAREN" THEN POk(p.lx, TupleType(types1))
         ELSE Let(parser_expect(src, p.lx, "TOKEN_COMMA"), LAMBDA c :
              IF c.err # "" THEN c
              ELSE ParseTupleTypes(u, src, c.lx, types1)))))

\* on success node is the Type written through the out parameter
parser_parse_type(u, src, lx) ==
    Let(lexer_peek_token(src, lx), LAMBDA p :
    IF p.token.type = "TOKEN_IDENTIFIER" THEN
        IF u = "fault" THEN PErr(p.lx, Fault)
        ELSE POk(lexer_next_token(src, p.lx).lx, NamedType(Garbage))
    ELSE IF p.token.type = "TOKEN_LEFT_BRACKET" THEN
        Let(lexer_next_token(src, p.lx), LAMBDA n :
        Let(parser_parse_type(u, src, n.lx), LAMBDA e :
        IF e.err # "" THEN e
        ELSE Let(parser_expect(src, e.lx, "TOKEN_RIGHT_BRACKET"), LAMBDA c :
             IF c.err # "" THEN c ELSE POk(c.lx, ArrayType(e.node)))))
    ELSE IF p.token.type = "TOKEN_LEFT_PAREN" THEN
        Let(lexer_next_token(src, p.lx), LAMBDA n :
        Let(lexer_peek_token(src, n.lx), LAMBDA q :
        Let(IF q.token.type # "TOKEN_RIGHT_PAREN"
            THEN ParseTupleTypes(u, src, q.lx, <<>>)
            ELSE POk(q.lx, TupleType(<<>>)), LAMBDA ts :
        IF ts.err # "" THEN ts
        ELSE Let(parser_expect(src, ts.lx, "TOKEN_RIGHT_PAREN"), LAMBDA c :
             IF c.err # "" THEN c ELSE POk(c.lx, ts.node)))))
    ELSE PErr(p.lx, "Expected type"))

RECURSIVE parser_parse_expression(_, _, _)
RECURSIVE ParseArguments(_, _, _, _)

\* the while (1) loop of the call branch; node.kids carries the arguments
ParseArguments(u, src, lx, args) ==
    Let(parser_parse_expression(u, src, lx), LAMBDA a :
    IF a.err # "" THEN a
    ELSE Let(Append(args, a.node), LAMBDA args1 :
         Let(lexer_peek_token(src, a.lx), LAMBDA p :
         IF p.token.type = "TOKEN_RIGHT_PAREN"
         THEN POk(p.lx, [type |-> "args", kids |-> args1])
         ELSE Let(parser_expect(src, p.lx, "TOKEN_COMMA"), LAMBDA c :
              IF c.err # "" THEN c
              ELSE ParseArguments(u, src, c.lx, args1)))))

parser_parse_expression(u, src, lx) ==
    Let(lexer_peek_token(src, lx), LAMBDA p :
    Let(p.token, LAMBDA tok :
    IF tok.type = "TOKEN_IDENTIFIER" THEN
        IF u = "fault" THEN PErr(p.lx, Fault)
        ELSE
        Let(Garbage, LAMBDA name :
        Let(lexer_next_token(src, p.lx), LAMBDA n :
        Let(lexer_peek_token(src, n.lx), LAMBDA q :
        IF q.token.type = "TOKEN_LEFT_PAREN" THEN
            Let(lexer_next_token(src, q.lx), LAMBDA n2 :
            Let(lexer_peek_token(src, n2.lx), LAMBDA q2 :
            Let(IF q2.token.type # "TOKEN_RIGHT_PAREN"
                THEN ParseArguments(u, src, q2.lx, <<>>)
                ELSE POk(q2.lx, [type |-> "args", kids |-> <<>>]), LAMBDA as :
            IF as.err # "" THEN as
            ELSE POk(lexer_next_token(src, as.lx).lx,
                     create_function_call_node(name, as.node.kids)))))
        ELSE POk(q.lx, create_variable_reference_node(name)))))
    ELSE IF tok.type = "TOKEN_NUMBER" THEN
        POk(lexer_next_token(src, p.lx).lx,
            create_integer_literal_node(IntCast(tok.value)))
    ELSE IF tok.type = "TOKEN_STRING" THEN
        POk(lexer_next_token(src, p.lx).lx,
            create_string_literal_node(tok.value.text))
    ELSE IF tok.type \in {"TOKEN_TRUE", "TOKEN_FALSE"} THEN
        POk(lexer_next_token(src, p.lx).lx,
            create_boolean_literal_node(tok.type = "TOKEN_TRUE"))
    ELSE PErr(p.lx, "Expected expression")))

parser_parse_statement(u, src, lx) ==
    Let(lexer_peek_token(src, lx), LAMBDA p :
    IF p.token.type = "TOKEN_VAR" THEN
        Let(lexer_next_token(src, p.lx), LAMBDA n :
        Let(parser_parse_identifier(u, src, n.lx), LAMBDA id :
        IF id.err # "" THEN id
        ELSE
        Let(lexer_peek_token(src, id.lx), LAMBDA q :
        Let(IF q.token.type = "TOKEN_COLON"
            THEN parser_parse_type(u, src, lexer_next_token(src, q.lx).lx)
            ELSE POk(q.lx, NullType), LAMBDA ty :
        IF ty.err # "" THEN ty
        ELSE
        Let(parser_expect(src, ty.lx, "TOKEN_EQUAL"), LAMBDA eq :
        IF eq.err # "" THEN eq
        ELSE
        Let(parser_parse_expression(u, src, eq.lx), LAMBDA init :
        IF init.err # "" THEN init
        ELSE POk(init.lx,
                 create_let_statement_node(id.node.text, ty.node, init.node))))))))
    ELSE IF p.token.type = "TOKEN_RETURN" THEN
        Let(lexer_next_token(src, p.lx), LAMBDA n :
        Let(lexer_peek_token(src, n.lx), LAMBDA q :
        IF q.token.type # "TOKEN_SEMICOLON" THEN
            Let(parser_parse_expression(u, src, q.lx), LAMBDA v :
            IF v.err # "" THEN v
            ELSE POk(v.lx, create_expression_statement_node(v.node)))
        ELSE POk(q.lx, create_expression_statement_node(NoNode))))
    ELSE
        Let(parser_parse_expression(u, src, p.lx), LAMBDA e :
        IF e.err # "" THEN e
        ELSE Let(parser_expect(src, e.lx, "TOKEN_SEMICOLON"), LAMBDA c :
             IF c.err # "" THEN c ELSE POk(c.lx, e.node))))

\* create_block_statement_node copies the statements
create_block_statement_node(statements) ==
    [type |-> "NODE_BLOCK_STATEMENT", kids |-> statements]

\* on success node.ivalue is the int written through value
parser_parse_integer(src, lx) ==
    Let(lexer_next_token(src, lx), LAMBDA r :
    IF r.token.type # "TOKEN_NUMBER" THEN PErr(r.lx, "Expected number")
    ELSE POk(r.lx, [type |-> "int", ivalue |-> IntCast(r.token.value)]))

\* the while (1) loop of parser_parse_block
RECURSIVE BlockStatements(_, _, _, _)
BlockStatements(u, src, lx, statements) ==
    Let(lexer_peek_token(src, lx), LAMBDA p :
    IF p.token.type = "TOKEN_RIGHT_BRACE"
    THEN POk(lexer_next_token(src, p.lx).lx, create_block_statement_node(statements))
    ELSE Let(parser_parse_statement(u, src, p.lx), LAMBDA s :
         IF s.err # "" THEN s
         ELSE BlockStatements(u, src, s.lx, Append(statements, s.node))))

parser_parse_block(u, src, lx) ==
    Let(lexer_next_token(src, lx), LAMBDA r :
    IF r.token.type # "TOKEN_LEFT_BRACE" THEN PErr(r.lx, "Expected '{'")
    ELSE BlockStatements(u, src, r.lx, <<>>))

\* the while (1) loop over the parameters; node.kids carries the Parameters
\* pushed so far, in the order of the pushes
RECURSIVE FunctionParameters(_, _, _, _)
FunctionParameters(u, src, lx, parameters) ==
    Let(parser_parse_identifier(u, src, lx), LAMBDA id :
    IF id.err # "" THEN id
    ELSE Let(parser_expect(src, id.lx, "TOKEN_COLON"), LAMBDA c :
    IF c.err # "" THEN c
    ELSE Let(parser_parse_type(u, src, c.lx), LAMBDA ty :
    IF ty.err # "" THEN ty
    ELSE Let(Append(parameters, [name |-> id.node.text, type_annotation |-> ty.node]),
             LAMBDA parameters1 :
         Let(lexer_peek_token(src, ty.lx), LAMBDA p :
         IF p.token.type = "TOKEN_RIGHT_PAREN"
         THEN POk(p.lx, [type |-> "parameters", kids |-> parameters1])
         ELSE Let(parser_expect(src, p.lx, "TOKEN_COMMA"), LAMBDA k :
              IF k.err # "" THEN k
              ELSE FunctionParameters(u, src, k.lx, parameters1)))))))

\* from the right parenthesis up to the body: `) -> type [priority n]`
FunctionTail(u, src, lx, name, parameters) ==
    Let(parser_expect(src, lx, "TOKEN_RIGHT_PAREN"), LAMBDA rp :
    IF rp.err # "" THEN rp
    ELSE Let(parser_expect(src, rp.lx, "TOKEN_ARROW"), LAMBDA ar :
    IF ar.err # "" THEN ar
    ELSE Let(parser_parse_type(u, src, ar.lx), LAMBDA rt :
    IF rt.err # "" THEN rt
    ELSE Let(lexer_peek_token(src, rt.lx), LAMBDA p :
         Let(IF p.token.type = "TOKEN_PRIORITY"
             THEN parser_parse_integer(src, lexer_next_token(src, p.lx).lx)
             ELSE POk(p.lx, [type |-> "int", ivalue |-> 0]), LAMBDA pr :
         IF pr.err # "" THEN pr
         ELSE POk(pr.lx, [type |-> "Function", name |-> name,
                          parameters |-> parameters,
                          return_type |-> rt.node,
                          priority |-> pr.node.ivalue]))))))

\* from `fn` up to the body: name, parameter list, return type and priority
FunctionSignature(u, src, lx) ==
    Let(lexer_next_token(src, lx), LAMBDA f :
    IF f.token.type # "TOKEN_FUNCTION" THEN PErr(f.lx, "Expected 'fn' keyword")
    ELSE Let(parser_parse_identifier(u, src, f.lx), LAMBDA id :
    IF id.err # "" THEN id
    ELSE Let(parser_expect(src, id.lx, "TOKEN_LEFT_PAREN"), LAMBDA lp :
    IF lp.err # "" THEN lp
    ELSE Let(lexer_peek_token(src, lp.lx), LAMBDA p :
         Let(IF p.token.type # "TOKEN_RIGHT_PAREN"
             THEN FunctionParameters(u, src, p.lx, <<>>)
             ELSE POk(p.lx, [type |-> "parameters", kids |-> <<>>]), LAMBDA ps :
         IF ps.err # "" THEN ps
         ELSE FunctionTail(u, src, ps.lx, id.node.text, ps.node.kids))))))

\* the body block closes the function: node.body is func->body
FunctionBody(u, src, sig) ==
    Let(parser_parse_block(u, src, sig.lx), LAMBDA b :
    IF b.err # "" THEN b
    ELSE POk(b.lx, [type |-> "Function", name |-> sig.node.name,
                    parameters |-> sig.node.parameters,
                    return_type |-> sig.node.return_type,
                    priority |-> sig.node.priority,
                    body |-> b.node]))

parser_parse_function(u, src, lx) ==
    Let(FunctionSignature(u, src, lx), LAMBDA sig :
    IF sig.err # "" THEN sig ELSE FunctionBody(u, src, sig))

(***************************************************************************)
(* The type system (type_system.c).                                        *)
(***************************************************************************)
VectorType(d, e) == Ty("TYPE_VECTOR", <<d>>, <<e>>, <<>>, 0)

MatrixType(r, c, e) == Ty("TYPE_MATRIX", <<r, c>>, <<e>>, <<>>, 0)

TensorType(ds, e) == Ty("TYPE_TENSOR", ds, <<e>>, <<>>, 0)

QuaternionType(e) == Ty("TYPE_QUATERNION", <<>>, <<e>>, <<>>, 0)

ComplexType(e) == Ty("TYPE_COMPLEX", <<>>, <<e>>, <<>>, 0)

\* elems holds the parameter types followed by the return type
FunctionType(params, ret, prio) == Ty("TYPE_FUNCTION", <<>>, Append(params, ret), <<>>, prio)

parameter_count(t) == Len(t.elems) - 1

parameter_types(t) == SubSeq(t.elems, 1, Len(t.elems) - 1)

return_type(t) == t.elems[Len(t.elems)]

element_type(t) == t.elems[1]

type_new(kind) == Scalar(kind)

RECURSIVE IsCompatible(_, _)
IsCompatible(t1, t2) ==
    IF t1.kind = "NULL" \/ t2.kind = "NULL" THEN FALSE
    ELSE IF t1.kind # t2.kind THEN FALSE
    ELSE CASE t1.kind \in {"TYPE_INTEGER", "TYPE_FLOAT", "TYPE_BOOLEAN", "TYPE_STRING"} -> TRUE
           [] t1.kind = "TYPE_ARRAY" -> IsCompatible(element_type(t1), element_type(t2))
           [] t1.kind = "TYPE_TUPLE" ->
                IF Len(t1.elems) # Len(t2.elems) THEN FALSE
                ELSE \A i \in 1..Len(t1.elems) : IsCompatible(t1.elems[i], t2.elems[i])
           [] t1.kind = "TYPE_VECTOR" ->
                /\ t1.dims[1] = t2.dims[1]
                /\ IsCompatible(element_type(t1), element_type(t2))
           [] t1.kind = "TYPE_MATRIX" ->
                /\ t1.dims[1] = t2.dims[1]
                /\ t1.dims[2] = t2.dims[2]
                /\ IsCompatible(element_type(t1), element_type(t2))
           [] t1.kind = "TYPE_TENSOR" ->
                IF Len(t1.dims) # Len(t2.dims) THEN FALSE
                ELSE IF \E i \in 1..Len(t1.dims) : t1.dims[i] # t2.dims[i] THEN FALSE
                ELSE IsCompatible(element_type(t1), element_type(t2))
           [] t1.kind = "TYPE_QUATERNION" -> IsCompatible(element_type(t1), element_type(t2))
           [] t1.kind = "TYPE_COMPLEX" -> IsCompatible(element_type(t1), element_type(t2))
           [] t1.kind = "TYPE_FUNCTION" ->
                IF parameter_count(t1) # parameter_count(t2) THEN FALSE
                ELSE IF ~IsCompatible(return_type(t1), return_type(t2)) THEN FALSE
                ELSE \A i \in 1..parameter_count(t1) :
                        IsCompatible(t1.elems[i], t2.elems[i])
           [] t1.kind = "TYPE_NAMED" -> t1.name = t2.name
           [] OTHER -> FALSE

\* type_is_compatible_with widened one way only: Int fits a Float context
CompatibleOneWayWidening(t1, t2) ==
    IF t1.kind = "TYPE_INTEGER" /\ t2.kind = "TYPE_FLOAT" THEN TRUE
    ELSE IsCompatible(t1, t2)

\* type_is_compatible_with that forgets to compare vector dimensions
CompatibleIgnoringVectorDimension(t1, t2) ==
    IF t1.kind = "TYPE_VECTOR" /\ t2.kind = "TYPE_VECTOR"
    THEN IsCompatible(element_type(t1), element_type(t2))
    ELSE IsCompatible(t1, t2)

\* type_is_compatible_with that treats the priority as part of a function type
CompatibleComparingPriority(t1, t2) ==
    IF t1.kind = "TYPE_FUNCTION" /\ t2.kind = "TYPE_FUNCTION" /\ t1.prio # t2.prio
    THEN FALSE
    ELSE IsCompatible(t1, t2)

type_is_compatible_with(t1, t2) == IsCompatible(t1, t2)

type_can_own(t1, t2) ==
    IF t1.kind = "NULL" \/ t2.kind = "NULL" THEN FALSE
    ELSE IF t1.kind # "TYPE_FUNCTION" \/ t2.kind # "TYPE_FUNCTION" THEN FALSE
    ELSE IF parameter_count(t1) # parameter_count(t2) THEN FALSE
    ELSE IF \E i \in 1..parameter_count(t1) :
                ~type_is_compatible_with(t1.elems[i], t2.elems[i]) THEN FALSE
    ELSE type_is_compatible_with(return_type(t1), return_type(t2))

(***************************************************************************)
(* Type inference and checking (type_infer, type_check) over the nodes of  *)
(* ast_create_node: type is the NodeType, lit the LiteralType of a         *)
(* literal, operator the TokenType of a binary or unary node, name the     *)
(* text of an identifier or declaration, kids the child nodes.             *)
(***************************************************************************)
AstNode(type, lit, operator, name, kids) ==
    [type |-> type, lit |-> lit, operator |-> operator, name |-> name, kids |-> kids]

\* a NULL ASTNode pointer
NullNode == AstNode("NULL", "", "", <<>>, <<>>)

ast_create_literal(lit) == AstNode("NODE_LITERAL", lit, "", <<>>, <<>>)

ast_create_identifier(name) == AstNode("NODE_IDENTIFIER", "", "", name, <<>>)

ast_create_binary(operator, left, right) ==
    AstNode("NODE_BINARY", "", operator, <<>>, <<left, right>>)

ast_create_unary(operator, operand) ==
    AstNode("NODE_UNARY", "", operator, <<>>, <<operand>>)

ast_create_program(declarations) ==
    AstNode("NODE_PROGRAM", "", "", <<>>, declarations)

\* kids: the parameters followed by the body
ast_create_function_decl(name, parameters, body) ==
    AstNode("NODE_FUNCTION_DECL", "", "", name, Append(parameters, body))

ast_create_variable_decl(name) == AstNode("NODE_VARIABLE_DECL", "", "", name, <<>>)

BlockNode(statements) == AstNode("NODE_BLOCK", "", "", <<>>, statements)

ReturnNode(value) == AstNode("NODE_RETURN", "", "", <<>>, <<value>>)

ArithmeticOps == {"TOKEN_PLUS", "TOKEN_MINUS", "TOKEN_STAR", "TOKEN_SLASH"}

ComparisonOps == {"TOKEN_EQ", "TOKEN_NEQ", "TOKEN_LT", "TOKEN_GT", "TOKEN_LE", "TOKEN_GE"}

\* the first branch of the arithmetic case: both Int, the left type is returned;
\* the second: both numeric, the right type is returned
InferArithmetic(left_type, right_type) ==
    IF left_type.kind = "TYPE_INTEGER" /\ right_type.kind = "TYPE_INTEGER" THEN left_type
    ELSE IF left_type.kind \in {"TYPE_FLOAT", "TYPE_INTEGER"}
            /\ right_type.kind \in {"TYPE_FLOAT", "TYPE_INTEGER"} THEN right_type
    ELSE NullType

RECURSIVE type_infer(_)
type_infer(n) ==
    IF n.type = "NULL" THEN NullType
    ELSE IF n.type = "NODE_LITERAL" THEN
        CASE n.lit = "LITERAL_INTEGER" -> type_new("TYPE_INTEGER")
          [] n.lit = "LITERAL_FLOAT" -> type_new("TYPE_FLOAT")
          [] n.lit = "LITERAL_STRING" -> type_new("TYPE_STRING")
          [] n.lit = "LITERAL_BOOLEAN" -> type_new("TYPE_BOOLEAN")
          [] n.lit = "LITERAL_NULL" -> type_new("TYPE_VOID")
          [] OTHER -> NullType
    ELSE IF n.type = "NODE_BINARY" THEN
        LET left_type == type_infer(n.kids[1])
            right_type == type_infer(n.kids[2])
        IN
        IF left_type.kind = "NULL" \/ right_type.kind = "NULL" THEN NullType
        ELSE IF n.operator \in ArithmeticOps THEN InferArithmetic(left_type, right_type)
        ELSE IF n.operator \in ComparisonOps THEN
            IF type_is_compatible_with(left_type, right_type)
            THEN type_new("TYPE_BOOLEAN")
            ELSE NullType
        ELSE NullType
    ELSE IF n.type = "NODE_UNARY" THEN
        LET operand_type == type_infer(n.kids[1]) IN
        IF operand_type.kind = "NULL" THEN NullType
        ELSE IF n.operator = "TOKEN_MINUS" THEN
            IF operand_type.kind \in {"TYPE_INTEGER", "TYPE_FLOAT"}
            THEN operand_type ELSE NullType
        ELSE IF n.operator = "TOKEN_BANG" THEN
            IF operand_type.kind = "TYPE_BOOLEAN"
            THEN type_new("TYPE_BOOLEAN") ELSE NullType
        ELSE NullType
    ELSE NullType

type_check(n) ==
    IF n.type = "NULL" THEN "SLANG_SUCCESS"
    ELSE IF type_infer(n).kind = "NULL" THEN "SLANG_ERROR_TYPE"
    ELSE "SLANG_SUCCESS"

(***************************************************************************)
(* Code generation (codegen.c).  The output file is the sequence of the    *)
(* lines written so far, a line being [op, arg]: op is the instruction     *)
(* text, "label" for a `name:` line of codegen_emit_statement and          *)
(* "function" for the `name:` line of codegen_emit_function; arg is the    *)
(* label or symbol name the line carries, a sequence of characters.  The   *)
(* context ctx is [label_counter, output, string_literals,                 *)
(* global_variables] of the CodeGenContext, output the lines written to    *)
(* output_file and the two vectors as sequences, together                  *)
(* with returned, the labels codegen_new_label has returned so far.        *)
(* A statement node is an AstNode whose kids are, for NODE_IF, condition,  *)
(* then_branch and else_branch; for NODE_WHILE, condition and body; for    *)
(* NODE_RETURN, value; for NODE_BLOCK, the statements; for NODE_CALL, the  *)
(* callee followed by the arguments (the arguments vector is not NULL).    *)
(* The nodes handed to the code generator carry, beside the AstNode        *)
(* fields, the fields codegen.c reads from them: local_size of a function  *)
(* declaration, offset and is_local of an identifier, value_type           *)
(* (as.binary.type) of a binary node, and for a string literal its text    *)
(* (in name) and the address of that text.  string_literals holds, per     *)
(* entry, the text pointer pushed: [address, text].                        *)
(***************************************************************************)
Ins(text, arg) == [op |-> text, arg |-> arg]

DigitChars == <<"0", "1", "2", "3", "4", "5", "6", "7", "8", "9">>

\* the characters %zu prints for n
RECURSIVE DecimalDigits(_)
DecimalDigits(n) ==
    IF n < 10 THEN <<DigitChars[n + 1]>>
    ELSE Append(DecimalDigits(n \div 10), DigitChars[(n % 10) + 1])

codegen_create ==
    [label_counter |-> 0, output |-> <<>>, string_literals |-> <<>>,
     global_variables |-> <<>>, returned |-> <<>>]

\* one fprintf(context->output_file, ...) of a whole line
fprintf(ctx, line) == [ctx EXCEPT !.output = Append(@, line)]

\* a label that is handed out without advancing the counter
NewLabelWithoutIncrement(ctx) ==
    Let(<<"L">> \o DecimalDigits(ctx.label_counter), LAMBDA label :
    [label |-> label, ctx |-> [ctx EXCEPT !.returned = Append(@, label)]])

\* sprintf(label, "L%zu", context->label_counter++)
codegen_new_label(ctx) ==
    Let(<<"L">> \o DecimalDigits(ctx.label_counter), LAMBDA label :
    [label |-> label,
     ctx |-> [ctx EXCEPT !.label_counter = @ + 1, !.returned = Append(@, label)]])

codegen_emit_literal(ctx, n) ==
    CASE n.lit = "LITERAL_INTEGER" -> fprintf(ctx, Ins("mov rax, imm", <<>>))
      [] n.lit = "LITERAL_FLOAT" ->
            fprintf(fprintf(ctx, Ins("mov rax, imm", <<>>)), Ins("movq xmm0, rax", <<>>))
      [] n.lit = "LITERAL_STRING" ->
            fprintf([ctx EXCEPT !.string_literals =
                                    Append(@, [address |-> n.address, text |-> n.name])],
                    Ins("lea rax, [rel str_%zu]", DecimalDigits(Len(ctx.string_literals))))
      [] n.lit = "LITERAL_BOOLEAN" -> fprintf(ctx, Ins("mov rax, imm", <<>>))
      [] n.lit = "LITERAL_NULL" -> fprintf(ctx, Ins("xor rax, rax", <<>>))
      [] OTHER -> ctx

RECURSIVE codegen_emit_expression(_, _)
codegen_emit_unary(ctx, n) ==
    Let(codegen_emit_expression(ctx, n.kids[1]), LAMBDA c :
    CASE n.operator = "TOKEN_MINUS" -> fprintf(c, Ins("neg rax", <<>>))
      [] n.operator = "TOKEN_BANG" ->
            fprintf(fprintf(fprintf(c, Ins("test rax, rax", <<>>)),
                            Ins("setz al", <<>>)), Ins("movzx rax, al", <<>>))
      [] OTHER -> c)

\* the instructions of one operator of codegen_emit_binary: the xmm
\* sequence when as.binary.type is TYPE_FLOAT, the integer one otherwise
FloatOperation(mnemonic) ==
    <<Ins("movq xmm0, rax", <<>>), Ins("movq xmm1, rbx", <<>>),
      Ins(mnemonic, <<>>), Ins("movq rax, xmm0", <<>>)>>

FloatComparison(setcc) ==
    <<Ins("movq xmm0, rax", <<>>), Ins("movq xmm1, rbx", <<>>),
      Ins("comisd xmm0, xmm1", <<>>), Ins(setcc, <<>>), Ins("movzx rax, al", <<>>)>>

IntegerComparison(setcc) ==
    <<Ins("cmp rax, rbx", <<>>), Ins(setcc, <<>>), Ins("movzx rax, al", <<>>)>>

BinaryOperation(operator, float) ==
    CASE operator = "TOKEN_PLUS" ->
            IF float THEN FloatOperation("addsd xmm0, xmm1") ELSE <<Ins("add rax, rbx", <<>>)>>
      [] operator = "TOKEN_MINUS" ->
            IF float THEN FloatOperation("subsd xmm0, xmm1") ELSE <<Ins("sub rax, rbx", <<>>)>>
      [] operator = "TOKEN_STAR" ->
            IF float THEN FloatOperation("mulsd xmm0, xmm1") ELSE <<Ins("imul rax, rbx", <<>>)>>
      [] operator = "TOKEN_SLASH" ->
            IF float THEN FloatOperation("divsd xmm0, xmm1")
            ELSE <<Ins("cqo", <<>>), Ins("idiv rbx", <<>>)>>
      [] operator = "TOKEN_EQ" ->
            IF float THEN FloatComparison("sete al") ELSE IntegerComparison("sete al")
      [] operator = "TOKEN_NEQ" ->
            IF float THEN FloatComparison("setne al") ELSE IntegerComparison("setne al")
      [] operator = "TOKEN_LT" ->
            IF float THEN FloatComparison("setb al") ELSE IntegerComparison("setl al")
      [] operator = "TOKEN_GT" ->
            IF float THEN FloatComparison("seta al") ELSE IntegerComparison("setg al")
      [] operator = "TOKEN_LE" ->
            IF float THEN FloatComparison("setbe al") ELSE IntegerComparison("setle al")
      [] operator = "TOKEN_GE" ->
            IF float THEN FloatComparison("setae al") ELSE IntegerComparison("setge al")
      [] OTHER -> <<>>

\* the right operand, push, the left operand, pop, the operator
codegen_emit_binary(ctx, n) ==
    Let(fprintf(codegen_emit_expression(
                    fprintf(codegen_emit_expression(ctx, n.kids[2]), Ins("push rax", <<>>)),
                    n.kids[1]),
                Ins("pop rbx", <<>>)),
        LAMBDA c : [c EXCEPT !.output =
                        @ \o BinaryOperation(n.operator, n.value_type = "TYPE_FLOAT")])

\* the arguments from the last to the first, each followed by a push
RECURSIVE EmitArguments(_, _, _)
EmitArguments(ctx, arguments, i) ==
    IF i = 0 THEN ctx
    ELSE EmitArguments(
            fprintf(codegen_emit_expression(ctx, arguments[i]), Ins("push rax", <<>>)),
            arguments, i - 1)

\* n.kids is the callee followed by the arguments
codegen_emit_call(ctx, n) ==
    Let(Tail(n.kids), LAMBDA arguments :
    fprintf(fprintf(codegen_emit_expression(
                        EmitArguments(ctx, arguments, Len(arguments)), n.kids[1]),
                    Ins("call rax", <<>>)),
            Ins("add rsp, %zu", DecimalDigits(Len(arguments) * 8))))

codegen_emit_variable(ctx, n) ==
    IF n.type # "NODE_IDENTIFIER" THEN ctx
    ELSE IF n.is_local
    THEN fprintf(ctx, Ins("mov rax, [rbp - %zu]", DecimalDigits(n.offset)))
    ELSE fprintf(ctx, Ins("mov rax, [rel %s]", n.name))

codegen_emit_expression(ctx, n) ==
    CASE n = NullNode -> ctx
      [] n.type = "NODE_LITERAL" -> codegen_emit_literal(ctx, n)
      [] n.type = "NODE_BINARY" -> codegen_emit_binary(ctx, n)
      [] n.type = "NODE_UNARY" -> codegen_emit_unary(ctx, n)
      [] n.type = "NODE_CALL" -> codegen_emit_call(ctx, n)
      [] n.type = "NODE_IDENTIFIER" -> codegen_emit_variable(ctx, n)
      [] OTHER -> ctx

RECURSIVE codegen_emit_statement(_, _)
\* case NODE_BLOCK: the statements from index i on, NULL entries skipped
RECURSIVE EmitBlock(_, _, _)
EmitBlock(ctx, statements, i) ==
    IF i > Len(statements) THEN ctx
    ELSE IF statements[i] = NullNode THEN EmitBlock(ctx, statements, i + 1)
    ELSE EmitBlock(codegen_emit_statement(ctx, statements[i]), statements, i + 1)

\* case NODE_IF up to the conditional jump: the condition, the two labels
IfHead(ctx, n) ==
    Let(codegen_new_label(codegen_emit_expression(ctx, n.kids[1])), LAMBDA l1 :
    Let(codegen_new_label(l1.ctx), LAMBDA l2 :
    [else_label |-> l1.label, end_label |-> l2.label,
     ctx |-> fprintf(fprintf(l2.ctx, Ins("cmp rax, 0", <<>>)), Ins("je", l1.label))]))

\* an if whose else label is written after the else branch
EmitIfElseLabelLate(ctx, n) ==
    Let(IfHead(ctx, n), LAMBDA h :
    fprintf(fprintf(
        codegen_emit_statement(
            fprintf(codegen_emit_statement(h.ctx, n.kids[2]), Ins("jmp", h.end_label)),
            n.kids[3]),
        Ins("label", h.else_label)), Ins("label", h.end_label)))

\* case NODE_IF with a condition
EmitIf(ctx, n) ==
    Let(IfHead(ctx, n), LAMBDA h :
    fprintf(
        codegen_emit_statement(
            fprintf(fprintf(codegen_emit_statement(h.ctx, n.kids[2]),
                            Ins("jmp", h.end_label)),
                    Ins("label", h.else_label)),
            n.kids[3]),
        Ins("label", h.end_label)))

\* case NODE_WHILE up to the conditional jump
WhileHead(ctx, n) ==
    Let(codegen_new_label(ctx), LAMBDA l1 :
    Let(codegen_new_label(l1.ctx), LAMBDA l2 :
    [start_label |-> l1.label, exit_label |-> l2.label,
     ctx |-> fprintf(fprintf(
                codegen_emit_expression(fprintf(l2.ctx, Ins("label", l1.label)),
                                        n.kids[1]),
                Ins("cmp rax, 0", <<>>)), Ins("je", l2.label))]))

\* a while whose back jump goes to the exit label
EmitWhileJumpToExit(ctx, n) ==
    Let(WhileHead(ctx, n), LAMBDA h :
    fprintf(fprintf(codegen_emit_statement(h.ctx, n.kids[2]),
                    Ins("jmp", h.exit_label)),
            Ins("label", h.exit_label)))

\* case NODE_WHILE with a condition
EmitWhile(ctx, n) ==
    Let(WhileHead(ctx, n), LAMBDA h :
    fprintf(fprintf(codegen_emit_statement(h.ctx, n.kids[2]),
                    Ins("jmp", h.start_label)),
            Ins("label", h.exit_label)))

\* case NODE_RETURN
EmitReturn(ctx, n) ==
    fprintf(fprintf(fprintf(codegen_emit_expression(ctx, n.kids[1]),
                            Ins("mov rsp, rbp", <<>>)),
                    Ins("pop rbp", <<>>)), Ins("ret", <<>>))

codegen_emit_statement(ctx, n) ==
    CASE n = NullNode -> ctx
      [] n.type = "NODE_BLOCK" -> EmitBlock(ctx, n.kids, 1)
      [] n.type = "NODE_IF" -> IF n.kids[1] = NullNode THEN ctx ELSE EmitIf(ctx, n)
      [] n.type = "NODE_WHILE" -> IF n.kids[1] = NullNode THEN ctx ELSE EmitWhile(ctx, n)
      [] n.type = "NODE_RETURN" -> EmitReturn(ctx, n)
      [] OTHER -> codegen_emit_expression(ctx, n)

\* the registers of the first six parameters
regs == <<"rdi", "rsi", "rdx", "rcx", "r8", "r9">>

\* the loop over the parameters; i is the C index plus one
RECURSIVE EmitParameters(_, _, _)
EmitParameters(ctx, parameters, i) ==
    IF i > Len(parameters) THEN ctx
    ELSE IF parameters[i] = NullNode \/ parameters[i].type # "NODE_IDENTIFIER"
    THEN EmitParameters(ctx, parameters, i + 1)
    ELSE IF i - 1 < 6
    THEN EmitParameters(
            fprintf(ctx, Ins("mov [rbp - %zu], %s",
                             DecimalDigits(parameters[i].offset) \o <<regs[i]>>)),
            parameters, i + 1)
    ELSE EmitParameters(
            fprintf(fprintf(ctx, Ins("mov rax, [rbp + %zu]",
                                     DecimalDigits(16 + ((i - 1) - 6) * 8))),
                    Ins("mov [rbp - %zu], rax", DecimalDigits(parameters[i].offset))),
            parameters, i + 1)

\* the name line, the frame and the reservation of local_size bytes
FunctionPrologue(ctx, n) ==
    Let(fprintf(fprintf(fprintf(ctx, Ins("function", n.name)),
                        Ins("push rbp", <<>>)), Ins("mov rbp, rsp", <<>>)),
        LAMBDA c : IF n.local_size > 0
                   THEN fprintf(c, Ins("sub rsp, %zu", DecimalDigits(n.local_size)))
                   ELSE c)

\* a function whose parameters are moved after the body
EmitFunctionParametersLast(ctx, n) ==
    IF n = NullNode \/ n.type # "NODE_FUNCTION_DECL" THEN ctx
    ELSE fprintf(fprintf(fprintf(
            EmitParameters(
                codegen_emit_statement(FunctionPrologue(ctx, n), n.kids[Len(n.kids)]),
                SubSeq(n.kids, 1, Len(n.kids) - 1), 1),
            Ins("mov rsp, rbp", <<>>)), Ins("pop rbp", <<>>)), Ins("ret", <<>>))

\* n.kids is the parameters followed by the body; the name is not NULL
codegen_emit_function(ctx, n) ==
    IF n = NullNode \/ n.type # "NODE_FUNCTION_DECL" THEN ctx
    ELSE fprintf(fprintf(fprintf(
            codegen_emit_statement(
                EmitParameters(FunctionPrologue(ctx, n),
                               SubSeq(n.kids, 1, Len(n.kids) - 1), 1),
                n.kids[Len(n.kids)]),
            Ins("mov rsp, rbp", <<>>)), Ins("pop rbp", <<>>)), Ins("ret", <<>>))

\* the three lines of codegen_emit_prologue
codegen_emit_prologue(ctx) ==
    fprintf(fprintf(fprintf(ctx, Ins(".section .text", <<>>)),
                    Ins(".global main", <<>>)), Ins("", <<>>))

\* an entry that is labelled str_0 whatever its index
StringEntryUnnumbered(i, text) ==
    [op |-> "str_%zu: .asciz \"%s\"", arg |-> DecimalDigits(0), text |-> text]

\* the line "str_%zu: .asciz \"%s\"" for entry i (from 0) holding text
StringEntry(i, text) ==
    [op |-> "str_%zu: .asciz \"%s\"", arg |-> DecimalDigits(i), text |-> text]

RECURSIVE EmitStringLiterals(_, _)
EmitStringLiterals(ctx, i) ==
    IF i > Len(ctx.string_literals) THEN ctx
    ELSE EmitStringLiterals(
            fprintf(ctx, StringEntry(i - 1, ctx.string_literals[i].text)), i + 1)

RECURSIVE EmitGlobalVariables(_, _)
EmitGlobalVariables(ctx, i) ==
    IF i > Len(ctx.global_variables) THEN ctx
    ELSE EmitGlobalVariables(
            fprintf(ctx, Ins("%s: .quad 0", ctx.global_variables[i])), i + 1)

codegen_emit_epilogue(ctx) ==
    EmitGlobalVariables(
        EmitStringLiterals(fprintf(ctx, Ins("\n.section .data", <<>>)), 1), 1)

\* the loop of codegen_generate over the declarations
RECURSIVE EmitDeclarations(_, _, _)
EmitDeclarations(ctx, declarations, i) ==
    IF i > Len(declarations) THEN ctx
    ELSE EmitDeclarations(
            IF declarations[i].type = "NODE_FUNCTION_DECL"
            THEN codegen_emit_function(ctx, declarations[i])
            ELSE ctx,
            declarations, i + 1)

\* [result, ctx]: the SlangError returned and the context afterwards; the
\* context and its output_file are not NULL, the declarations vector of a
\* program is not NULL, flushed tells whether fflush succeeded
codegen_generate(ctx, ast, flushed) ==
    IF ast = NullNode THEN [result |-> "SLANG_ERROR_INTERNAL", ctx |-> ctx]
    ELSE IF ast.type # "NODE_PROGRAM"
    THEN [result |-> "SLANG_ERROR_INVALID_AST", ctx |-> codegen_emit_prologue(ctx)]
    ELSE [result |-> IF flushed THEN "SLANG_SUCCESS" ELSE "SLANG_ERROR_IO",
          ctx |-> codegen_emit_epilogue(
                      EmitDeclarations(codegen_emit_prologue(ctx), ast.kids, 1))]

\* the addresses codegen_destroy hands to free: *str of every entry
codegen_destroy(ctx) ==
    [i \in 1..Len(ctx.string_literals) |-> ctx.string_literals[i].address]

\* the addresses of string texts ast_destroy_node hands to free, in order.
\* NODE_RETURN has no case: the value of a return is not visited
RECURSIVE ast_destroy_node(_)
RECURSIVE DestroyNodes(_, _)
DestroyNodes(nodes, i) ==
    IF i > Len(nodes) THEN <<>>
    ELSE ast_destroy_node(nodes[i]) \o DestroyNodes(nodes, i + 1)

ast_destroy_node(n) ==
    IF n = NullNode THEN <<>>
    ELSE CASE n.type \in {"NODE_PROGRAM", "NODE_FUNCTION_DECL", "NODE_BLOCK",
                          "NODE_IF", "NODE_WHILE", "NODE_BINARY", "NODE_UNARY",
                          "NODE_CALL"} -> DestroyNodes(n.kids, 1)
           [] n.type = "NODE_LITERAL" ->
                 IF n.lit = "LITERAL_STRING" THEN <<n.address>> ELSE <<>>
           [] OTHER -> <<>>

(***************************************************************************)
(* type_to_string (type_system.c): the characters of the string returned.  *)
(***************************************************************************)
Chars_int == <<"i", "n", "t">>

Chars_float == <<"f", "l", "o", "a", "t">>

Chars_bool == <<"b", "o", "o", "l">>

Chars_string == <<"s", "t", "r", "i", "n", "g">>

Chars_unknown == <<"u", "n", "k", "n", "o", "w", "n">>

RECURSIVE type_to_string(_)

\* the strings of the members from i on, ", " between two of them
RECURSIVE JoinTypes(_, _)
JoinTypes(types, i) ==
    IF i > Len(types) THEN <<>>
    ELSE type_to_string(types[i])
         \o (IF i < Len(types) THEN <<",", " ">> ELSE <<>>)
         \o JoinTypes(types, i + 1)

\* sprintf "%zux" per dimension, the last 'x' overwritten by the NUL; there
\* is at least one dimension
RECURSIVE JoinDimensions(_, _)
JoinDimensions(dims, i) ==
    IF i > Len(dims) THEN <<>>
    ELSE DecimalDigits(dims[i]) \o (IF i < Len(dims) THEN <<"x">> ELSE <<>>)
         \o JoinDimensions(dims, i + 1)

TupleString(t) == <<"(">> \o JoinTypes(t.elems, 1) \o <<")">>

\* strcpy(ptr, ") -> "); ptr += 6 steps over the NUL that strcpy wrote, so
\* the return type is copied behind the end of the string
FunctionString(t) ==
    <<"(">> \o JoinTypes(SubSeq(t.elems, 1, Len(t.elems) - 1), 1)
            \o <<")", " ", "-", ">", " ">>

type_to_string(t) ==
    CASE t.kind = "NULL" -> Chars_unknown
      [] t.kind = "TYPE_INTEGER" -> Chars_int
      [] t.kind = "TYPE_FLOAT" -> Chars_float
      [] t.kind = "TYPE_BOOLEAN" -> Chars_bool
      [] t.kind = "TYPE_STRING" -> Chars_string
      [] t.kind = "TYPE_ARRAY" -> <<"[">> \o type_to_string(t.elems[1]) \o <<"]">>
      [] t.kind = "TYPE_TUPLE" -> TupleString(t)
      [] t.kind = "TYPE_VECTOR" ->
            <<"v", "e", "c">> \o DecimalDigits(t.dims[1])
                \o <<"<">> \o type_to_string(t.elems[1]) \o <<">">>
      [] t.kind = "TYPE_MATRIX" ->
            <<"m", "a", "t">> \o DecimalDigits(t.dims[1]) \o <<"x">>
                \o DecimalDigits(t.dims[2])
                \o <<"<">> \o type_to_string(t.elems[1]) \o <<">">>
      [] t.kind = "TYPE_TENSOR" ->
            <<"t", "e", "n", "s", "o", "r", "<">> \o JoinDimensions(t.dims, 1)
                \o <<">", "<">> \o type_to_string(t.elems[1]) \o <<">">>
      [] t.kind = "TYPE_QUATERNION" ->
            <<"q", "u", "a", "t", "<">> \o type_to_string(t.elems[1]) \o <<">">>
      [] t.kind = "TYPE_COMPLEX" ->
            <<"c", "o", "m", "p", "l", "e", "x", "<">>
                \o type_to_string(t.elems[1]) \o <<">">>
      [] t.kind = "TYPE_FUNCTION" -> FunctionString(t)
      [] t.kind = "TYPE_NAMED" -> t.name
      [] OTHER -> Chars_unknown

(***************************************************************************)
(* The recursive-descent parser over lexer->tokens.  A Token pointer is    *)
(* the index of the token in the vector, 0 for NULL.  The parser state ps  *)
(* is [current, previous, errors] of the Parser together with              *)
(* next_current, the static cursor of lexer_next_token, and null_deref,    *)
(* which records that a NULL Token pointer has been dereferenced.          *)
(***************************************************************************)
NullToken == 0

\* lexer_next_token over the vector: [tok, cur] the pointer returned and the
\* cursor afterwards
lexer_next_token_static(toks, cur) ==
    IF cur >= Len(toks) THEN [tok |-> NullToken, cur |-> cur]
    ELSE [tok |-> cur + 1, cur |-> cur + 1]

\* lexer_peek_token over the vector; its own cursor is never incremented
lexer_peek_token_static(toks, cur) ==
    IF cur >= Len(toks) THEN NullToken ELSE cur + 1

parser_create(cur) ==
    [current |-> NullToken, previous |-> NullToken, errors |-> <<>>,
     next_current |-> cur, null_deref |-> FALSE]

\* error.line = parser->current->line: a read through parser->current
parser_error(toks, ps, type, message) ==
    IF ps.current = NullToken
    THEN [ps EXCEPT !.null_deref = TRUE,
                    !.errors = Append(@, [type |-> type, message |-> message, line |-> 0])]
    ELSE [ps EXCEPT !.errors = Append(@, [type |-> type, message |-> message,
                                          line |-> toks[ps.current].line])]

parser_advance(toks, ps) ==
    Let(lexer_next_token_static(toks, ps.next_current), LAMBDA r :
    [ps EXCEPT !.previous = ps.current, !.current = r.tok, !.next_current = r.cur])

parser_check(toks, ps, type) ==
    IF ps.current = NullToken THEN FALSE ELSE toks[ps.current].type = type

parser_match(toks, ps, type) ==
    IF parser_check(toks, ps, type)
    THEN [ok |-> TRUE, ps |-> parser_advance(toks, ps)]
    ELSE [ok |-> FALSE, ps |-> ps]

parser_consume(toks, ps, type, message) ==
    IF parser_check(toks, ps, type)
    THEN [ok |-> TRUE, ps |-> parser_advance(toks, ps)]
    ELSE [ok |-> FALSE, ps |-> parser_error(toks, ps, "ERROR_SYNTAX", message)]

\* the keywords whose branch of parser_statement consumes the keyword
StatementKeywords ==
    <<"TOKEN_LET", "TOKEN_IF", "TOKEN_WHILE", "TOKEN_FOR", "TOKEN_RETURN",
      "TOKEN_BREAK", "TOKEN_CONTINUE">>

DeclarationKeywords == <<"TOKEN_FN", "TOKEN_STRUCT", "TOKEN_IMPL", "TOKEN_TRAIT">>

\* the if / else if chain of parser_match calls: the first keyword matched
RECURSIVE MatchFirst(_, _, _, _)
MatchFirst(toks, ps, kws, k) ==
    IF k > Len(kws) THEN [ok |-> FALSE, ps |-> ps]
    ELSE Let(parser_match(toks, ps, kws[k]), LAMBDA m :
         IF m.ok THEN m ELSE MatchFirst(toks, ps, kws, k + 1))

\* every branch is empty: *stmt is left as it was (NULL)
parser_statement(toks, ps) ==
    [error |-> "SLANG_SUCCESS", ps |-> MatchFirst(toks, ps, StatementKeywords, 1).ps,
     decl |-> NullNode]

\* parser_function, parser_struct, parser_impl and parser_trait return
\* SLANG_SUCCESS without touching the parser or *decl
parser_declaration(toks, ps) ==
    Let(MatchFirst(toks, ps, DeclarationKeywords, 1), LAMBDA m :
    IF m.ok THEN [error |-> "SLANG_SUCCESS", ps |-> m.ps, decl |-> NullNode]
    ELSE parser_statement(toks, ps))

\* the while loop of parser_parse.  An iteration that leaves the parser as
\* it found it is repeated forever: the call does not return ("diverges")
RECURSIVE ParseDeclarations(_, _, _)
ParseDeclarations(toks, ps, declarations) ==
    IF parser_check(toks, ps, "TOKEN_EOF")
    THEN [error |-> "SLANG_SUCCESS", ps |-> ps, declarations |-> declarations]
    ELSE Let(parser_declaration(toks, ps), LAMBDA d :
         IF d.error # "SLANG_SUCCESS"
         THEN [error |-> d.error, ps |-> d.ps, declarations |-> <<>>]
         ELSE IF d.ps = ps
         THEN [error |-> "diverges", ps |-> ps, declarations |-> declarations]
         ELSE ParseDeclarations(toks, d.ps,
                IF d.decl # NullNode THEN Append(declarations, d.decl)
                ELSE declarations))

parser_parse(toks, ps) == ParseDeclarations(toks, parser_advance(toks, ps), <<>>)

parser_had_error(ps) == Len(ps.errors) > 0

SyncKeywords ==
    {"TOKEN_FN", "TOKEN_STRUCT", "TOKEN_IMPL", "TOKEN_TRAIT", "TOKEN_LET",
     "TOKEN_IF", "TOKEN_WHILE", "TOKEN_FOR", "TOKEN_RETURN"}

\* u is what a read through a NULL parser->previous or parser->current
\* does: "fault" ends the process inside the call, "garbage" yields a value
\* that is no TokenType the code compares it with.  outcome is "returns",
\* "fault" or "diverges" (the loop repeats on an unchanged parser)
RECURSIVE parser_synchronize(_, _, _)
parser_synchronize(u, toks, ps) ==
    IF parser_check(toks, ps, "TOKEN_EOF") THEN [outcome |-> "returns", ps |-> ps]
    ELSE IF ps.previous = NullToken /\ u = "fault"
        THEN [outcome |-> "fault", ps |-> [ps EXCEPT !.null_deref = TRUE]]
    ELSE IF ps.previous # NullToken /\ toks[ps.previous].type = "TOKEN_SEMICOLON"
        THEN [outcome |-> "returns", ps |-> ps]
    ELSE Let([ps EXCEPT !.null_deref = @ \/ ps.previous = NullToken], LAMBDA ps1 :
         IF ps1.current = NullToken /\ u = "fault"
         THEN [outcome |-> "fault", ps |-> [ps1 EXCEPT !.null_deref = TRUE]]
         ELSE IF ps1.current # NullToken /\ toks[ps1.current].type \in SyncKeywords
         THEN [outcome |-> "returns", ps |-> ps1]
         ELSE Let(parser_advance(toks,
                    [ps1 EXCEPT !.null_deref = @ \/ ps1.current = NullToken]),
              LAMBDA ps2 :
              IF ps2.current = NullToken /\ ps2.previous = NullToken
              THEN [outcome |-> "diverges", ps |-> ps2]
              ELSE parser_synchronize(u, toks, ps2)))

(***************************************************************************)
(* The lexer as a state machine: a client calls next and peek in any       *)
(* order on a lexer created over some source text.                         *)
(***************************************************************************)
LexAlphabet == {"a", "1", " ", "\n", "/", "\"", "=", "@"}

RECURSIVE SeqsUpTo(_, _)
SeqsUpTo(S, n) ==
    IF n = 0 THEN {<<>>}
    ELSE LET shorter == SeqsUpTo(S, n - 1)
         IN shorter \cup {Append(s, c) : s \in {t \in shorter : Len(t) = n - 1}, c \in S}

\* an operator character followed by up to MaxFollow characters
MaxFollow == 2

OperatorChars == {"=", "!", "<", ">", "-"}

OperatorSources ==
    {<<c>> \o rest : c \in OperatorChars,
                     rest \in SeqsUpTo({"=", ">", " ", "a"}, MaxFollow)}

\* the keywords of the language
LanguageKeywords ==
    {<<"f","n">>, <<"l","e","t">>, <<"i","f">>, <<"e","l","s","e">>,
     <<"w","h","i","l","e">>, <<"f","o","r">>, <<"i","n">>,
     <<"r","e","t","u","r","n">>, <<"m","a","t","c","h">>, <<"t","y","p","e">>,
     <<"p","r","i","o","r","i","t","y">>}

\* words around the keywords: each keyword, a keyword with letters added
\* after or before it, a keyword cut short, and plain names
WordSources ==
    LanguageKeywords
    \cup {k \o t : k \in LanguageKeywords, t \in {<<"x">>, <<"f","y">>, <<"e","d">>, <<"1">>, <<"_">>}}
    \cup {<<"x">> \o k : k \in LanguageKeywords}
    \cup {SubSeq(k, 1, Len(k) - 1) : k \in LanguageKeywords}
    \cup {k \o <<" ">> \o j : k \in {<<"i","f">>, <<"f","n">>}, j \in {<<"x">>, <<"i","n">>}}

LexSources == SeqsUpTo(LexAlphabet, MaxSrcLen) \cup OperatorSources \cup WordSources

NoToken == ZeroToken("none")

IdleLexer ==
    /\ source = <<>>
    /\ lexer = lexer_init
    /\ op = "idle"
    /\ token = NoToken

NoResult == [err |-> "none", lx |-> lexer_init, node |-> NoNode]

IdleParser ==
    /\ ub = "none"
    /\ stmt_result = NoResult
    /\ expr_result = NoResult
    /\ fn_result = NoResult
    /\ pphase = "idle"

IdleScan ==
    /\ lexer2 = lexer_create(<<>>)
    /\ sphase = "idle"

NoParse == [error |-> "none", declarations |-> <<>>]

IdleDescent ==
    /\ parser = parser_create(0)
    /\ rphase = "idle"
    /\ parse_result = NoParse
    /\ sync_entry = parser_create(0)

IdleGen ==
    /\ context = codegen_create
    /\ gen_node = NullNode
    /\ gen_entry = codegen_create
    /\ gen_count = 0
    /\ gphase = "idle"
    /\ gen_result = ""
    /\ released = <<>>

NoObjects ==
    [lexer |-> [created |-> 0, destroyed |-> 0],
     parser |-> [created |-> 0, destroyed |-> 0],
     ast |-> [created |-> 0, destroyed |-> 0]]

IdleCompile ==
    /\ cphase = "idle"
    /\ stages = <<>>
    /\ objects = NoObjects
    /\ compile_result = ""

\* static size_t current = 0, in both functions
NoStatics == [next |-> 0, peek |-> 0]

IdleProcess ==
    /\ statics = NoStatics
    /\ lexers = <<>>
    /\ reads = <<>>

IdleTypes ==
    /\ type1 = NullType
    /\ type2 = NullType
    /\ compat_result = FALSE
    /\ own_result = FALSE
    /\ tphase = "idle"

IdleInfer ==
    /\ node = NullNode
    /\ inferred = NullType
    /\ check_result = "none"
    /\ iphase = "idle"

LexInit ==
    /\ source \in LexSources
    /\ lexer = lexer_init
    /\ op = "init"
    /\ token = NoToken
    /\ lexer2 = lexer_create(source)
    /\ sphase = "created"
    /\ IdleParser /\ IdleTypes /\ IdleInfer /\ IdleDescent /\ IdleGen
    /\ IdleCompile /\ IdleProcess

LexerNextToken ==
    /\ op # "idle"
    /\ token.type # "TOKEN_EOF" \/ op # "next"
    /\ LET r == lexer_next_token(source, lexer)
       IN /\ lexer' = r.lx
          /\ token' = r.token
    /\ op' = "next"
    /\ UNCHANGED <<source, parserVars, typeVars, inferVars, scanVars, descentVars, genVars,
                   compileVars, processVars>>

LexerPeekToken ==
    /\ op # "idle"
    /\ lexer.line < MaxLine
    /\ LET r == lexer_peek_token(source, lexer)
       IN /\ lexer' = r.lx
          /\ token' = r.token
    /\ op' = "peek"
    /\ UNCHANGED <<source, parserVars, typeVars, inferVars, scanVars, descentVars, genVars,
                   compileVars, processVars>>

\* lexer_scan on the Lexer that lexer_create returned
LexerScan ==
    /\ sphase = "created"
    /\ lexer2' = lexer_scan(source)
    /\ sphase' = "scanned"
    /\ UNCHANGED <<lexerVars, parserVars, typeVars, inferVars, descentVars, genVars,
                   compileVars, processVars>>

LexNext == LexerNextToken \/ LexerPeekToken \/ LexerScan

SpecLexer == LexInit /\ [][LexNext]_vars

(***************************************************************************)
(* The parser as a state machine: a parser is created over a fresh lexer   *)
(* on some source text and is asked for one statement or one expression.   *)
(***************************************************************************)
MaxDigits == 2      \* longest digit run of an enumerated numeric literal
MaxStrLen == 2      \* longest text of an enumerated string literal

LitDigits == {"0", "2", "5"}

StrChars == {"a", " "}

IntLits == SeqsUpTo(LitDigits, MaxDigits) \ {<<>>}

FloatLits == {i \o <<".">> \o <<f>> : i \in IntLits, f \in LitDigits}

StrTexts == SeqsUpTo(StrChars, MaxStrLen)

StrLits == {<<"\"">> \o t \o <<"\"">> : t \in StrTexts}

Literals == IntLits \cup FloatLits \cup StrLits

KwLet == <<"l","e","t">>

KwVar == <<"v","a","r">>

\* the text `<kw> x = <lit>;`
LetSource(kw, lit) == kw \o <<" ","x"," ","="," ">> \o lit \o <<";">>

BinaryOps ==
    {<<"*">>, <<"/">>, <<"%">>, <<"+">>, <<"-">>,
     <<"<">>, <<"<","=">>, <<">">>, <<">","=">>,
     <<"=","=">>, <<"!","=">>, <<"a","n","d">>, <<"o","r">>}

\* the text `1 <op1> 2 <op2> 3`
ExprSource(op1, op2) == <<"1"," ">> \o op1 \o <<" ","2"," ">> \o op2 \o <<" ","3">>

MaxParams == 2      \* most parameters of an enumerated function declaration

\* the parameter names of the enumerated declarations, in declaration order
ParamNames == <<"a", "b", "c">>

\* the text `a: T, b: T` of the first n parameters
RECURSIVE ParamList(_)
ParamList(n) ==
    IF n = 0 THEN <<>>
    ELSE (IF n = 1 THEN <<>> ELSE ParamList(n - 1) \o <<",", " ">>)
         \o <<ParamNames[n], ":", " ", "T">>

FunctionBodies == {<<"{", "}">>, <<"{", " ", "1", ";", " ", "}">>}

\* the text `fn f(<n parameters>[,]) -> T <body>`
FunctionSource(n, trailing, body) ==
    <<"f", "n", " ", "f", "(">> \o ParamList(n)
    \o (IF trailing THEN <<",">> ELSE <<>>)
    \o <<")", " ", "-", ">", " ", "T", " ">> \o body

FunctionSources ==
    {FunctionSource(n, t, b) : n \in 0..MaxParams, t \in BOOLEAN, b \in FunctionBodies}

ParserSources ==
    {LetSource(kw, lit) : kw \in {KwLet, KwVar}, lit \in Literals}
    \cup {ExprSource(op1, op2) : op1 \in BinaryOps, op2 \in BinaryOps}
    \cup Literals
    \cup FunctionSources

ParseInit ==
    /\ source \in ParserSources
    /\ lexer = lexer_init
    /\ op = "idle"
    /\ token = NoToken
    /\ ub \in UBOutcomes
    /\ stmt_result = NoResult
    /\ expr_result = NoResult
    /\ fn_result = NoResult
    /\ pphase = "start"
    /\ IdleTypes /\ IdleInfer /\ IdleScan /\ IdleDescent /\ IdleGen
    /\ IdleCompile /\ IdleProcess

ParseStatement ==
    /\ pphase = "start"
    /\ stmt_result' = parser_parse_statement(ub, source, lexer)
    /\ lexer' = stmt_result'.lx
    /\ pphase' = "statement"
    /\ UNCHANGED <<source, op, token, ub, expr_result, fn_result,
                   typeVars, inferVars, scanVars, descentVars, genVars,
                   compileVars, processVars>>

ParseExpression ==
    /\ pphase = "start"
    /\ expr_result' = parser_parse_expression(ub, source, lexer)
    /\ lexer' = expr_result'.lx
    /\ pphase' = "expression"
    /\ UNCHANGED <<source, op, token, ub, stmt_result, fn_result,
                   typeVars, inferVars, scanVars, descentVars, genVars,
                   compileVars, processVars>>

ParseFunction ==
    /\ pphase = "start"
    /\ fn_result' = parser_parse_function(ub, source, lexer)
    /\ lexer' = fn_result'.lx
    /\ pphase' = "function"
    /\ UNCHANGED <<source, op, token, ub, stmt_result, expr_result,
                   typeVars, inferVars, scanVars, descentVars, genVars,
                   compileVars, processVars>>

ParseNext == ParseStatement \/ ParseExpression \/ ParseFunction

SpecParser == ParseInit /\ [][ParseNext]_vars

(***************************************************************************)
(* The type system as a state machine: two types are built and handed to   *)
(* type_is_compatible_with or to type_can_own.                             *)
(***************************************************************************)
MaxDim == 4         \* largest vector / matrix / tensor dimension
MaxRank == 2        \* largest tensor dimension count
MaxArity == 2       \* largest tuple arity and function parameter count
MaxPriority == 2    \* largest priority attached to a function type

TInt == Scalar("TYPE_INTEGER")

TFloat == Scalar("TYPE_FLOAT")

TBool == Scalar("TYPE_BOOLEAN")

TString == Scalar("TYPE_STRING")

TVoid == Scalar("TYPE_VOID")

DimValues == 2..MaxDim

\* element types of the composite types enumerated (NULL: as type_new leaves it)
ElemTypes == {TInt, TFloat, NullType}

ParamTypes == {TInt, TFloat}

TypeUniverse ==
    {TInt, TFloat, TBool, TString, TVoid, NullType}
    \cup {NamedType(n) : n \in {<<"a">>, <<"b">>}}
    \cup {ArrayType(e) : e \in ElemTypes}
    \cup {QuaternionType(e) : e \in ElemTypes}
    \cup {ComplexType(e) : e \in ElemTypes}
    \cup {VectorType(d, e) : d \in DimValues, e \in ElemTypes}
    \cup {MatrixType(r, c, e) : r \in DimValues, c \in DimValues, e \in ElemTypes}
    \cup {TensorType(ds, e) : ds \in SeqsUpTo(DimValues, MaxRank) \ {<<>>}, e \in ElemTypes}
    \cup {TupleType(ts) : ts \in SeqsUpTo(ElemTypes, MaxArity)}
    \cup {FunctionType(ps, r, p) : ps \in SeqsUpTo(ParamTypes, MaxArity),
                                   r \in ParamTypes, p \in 0..MaxPriority}

TypesInit ==
    /\ type1 \in TypeUniverse
    /\ type2 \in TypeUniverse
    /\ compat_result = FALSE
    /\ own_result = FALSE
    /\ tphase = "start"
    /\ IdleLexer /\ IdleParser /\ IdleInfer /\ IdleScan /\ IdleDescent /\ IdleGen
    /\ IdleCompile /\ IdleProcess

IsCompatibleWith ==
    /\ tphase = "start"
    /\ compat_result' = type_is_compatible_with(type1, type2)
    /\ tphase' = "compatible"
    /\ UNCHANGED <<type1, type2, own_result, lexerVars, parserVars, inferVars,
                   scanVars, descentVars, genVars,
                   compileVars, processVars>>

CanOwn ==
    /\ tphase = "start"
    /\ own_result' = type_can_own(type1, type2)
    /\ tphase' = "own"
    /\ UNCHANGED <<type1, type2, compat_result, lexerVars, parserVars, inferVars,
                   scanVars, descentVars, genVars,
                   compileVars, processVars>>

TypesNext == IsCompatibleWith \/ CanOwn

SpecTypes == TypesInit /\ [][TypesNext]_vars

(***************************************************************************)
(* Inference as a state machine: a tree is built and handed to type_infer  *)
(* or to type_check.                                                       *)
(***************************************************************************)
IntLit == ast_create_literal("LITERAL_INTEGER")

FloatLit == ast_create_literal("LITERAL_FLOAT")

StringLit == ast_create_literal("LITERAL_STRING")

BoolLit == ast_create_literal("LITERAL_BOOLEAN")

NullLit == ast_create_literal("LITERAL_NULL")

IdentA == ast_create_identifier(<<"a">>)

IdentB == ast_create_identifier(<<"b">>)

LeafNodes == {IntLit, FloatLit, StringLit, BoolLit, NullLit, IdentA, IdentB}

InferOps == ArithmeticOps \cup ComparisonOps \cup {"TOKEN_PERCENT", "TOKEN_BANG"}

\* operands of the enumerated binary and unary nodes: leaves and small trees
OperandNodes ==
    LeafNodes
    \cup {ast_create_binary(o, l, r) : o \in {"TOKEN_PLUS", "TOKEN_LT"},
                                       l \in {IntLit, FloatLit}, r \in {IntLit, FloatLit}}
    \cup {ast_create_unary("TOKEN_MINUS", x) : x \in {IntLit, FloatLit}}

\* fn add(a: int, b: int) -> int { return a + b; }
ReturnExprA == ast_create_binary("TOKEN_PLUS", IdentA, IdentB)

ScenarioA ==
    ast_create_program(<<
        ast_create_function_decl(<<"a","d","d">>,
            <<ast_create_variable_decl(<<"a">>), ast_create_variable_decl(<<"b">>)>>,
            BlockNode(<<ReturnNode(ReturnExprA)>>))>>)

InferNodes ==
    OperandNodes
    \cup {ast_create_binary(o, l, r) : o \in InferOps, l \in OperandNodes, r \in OperandNodes}
    \cup {ast_create_unary(o, x) : o \in {"TOKEN_MINUS", "TOKEN_BANG"}, x \in OperandNodes}
    \cup {NullNode, ScenarioA, ast_create_program(<<>>), ast_create_program(<<IntLit>>)}

InferInit ==
    /\ node \in InferNodes
    /\ inferred = NullType
    /\ check_result = "none"
    /\ iphase = "start"
    /\ IdleLexer /\ IdleParser /\ IdleTypes /\ IdleScan /\ IdleDescent /\ IdleGen
    /\ IdleCompile /\ IdleProcess

TypeInfer ==
    /\ iphase = "start"
    /\ inferred' = type_infer(node)
    /\ iphase' = "infer"
    /\ UNCHANGED <<node, check_result, lexerVars, parserVars, typeVars,
                   scanVars, descentVars, genVars,
                   compileVars, processVars>>

TypeCheck ==
    /\ iphase = "start"
    /\ check_result' = type_check(node)
    /\ iphase' = "check"
    /\ UNCHANGED <<node, inferred, lexerVars, parserVars, typeVars,
                   scanVars, descentVars, genVars,
                   compileVars, processVars>>

InferNext == TypeInfer \/ TypeCheck

SpecInfer == InferInit /\ [][InferNext]_vars

(***************************************************************************)
(* The recursive-descent parser as a state machine: the source is scanned  *)
(* by lexer_scan, a parser is created over the token vector, and its       *)
(* client either runs parser_parse or drives the parser token by token     *)
(* with parser_advance and parser_consume, calling parser_synchronize      *)
(* once an error has been recorded.                                        *)
(***************************************************************************)
MaxWords == 3       \* longest source, in words, handed to the parser
MaxErrors == 2      \* parser_consume is explored below this many errors

DescentWords == {<<"f","n">>, <<"l","e","t">>, <<"a">>, <<";">>}

RECURSIVE WordTexts(_)
WordTexts(n) ==
    IF n = 0 THEN {<<>>}
    ELSE LET shorter == WordTexts(n - 1)
         IN shorter \cup {IF t = <<>> THEN w ELSE t \o <<" ">> \o w :
                             t \in shorter, w \in DescentWords}

DescentSources == WordTexts(MaxWords)

DescentInit ==
    /\ source \in DescentSources
    /\ lexer = lexer_init
    /\ op = "idle"
    /\ token = NoToken
    /\ lexer2 = lexer_scan(source)
    /\ sphase = "scanned"
    /\ ub \in UBOutcomes
    /\ stmt_result = NoResult
    /\ expr_result = NoResult
    /\ fn_result = NoResult
    /\ pphase = "idle"
    /\ parser = parser_create(0)
    /\ rphase = "created"
    /\ parse_result = NoParse
    /\ sync_entry = parser_create(0)
    /\ IdleTypes /\ IdleInfer /\ IdleGen
    /\ IdleCompile /\ IdleProcess

\* the whole of parser_parse on the fresh parser
ParserParse ==
    /\ rphase = "created"
    /\ LET r == parser_parse(lexer2.tokens, parser)
       IN /\ parser' = r.ps
          /\ parse_result' = [error |-> r.error, declarations |-> r.declarations]
          /\ rphase' = IF r.error = "diverges" THEN "diverged" ELSE "parsed"
    /\ UNCHANGED <<lexerVars, parserVars, scanVars, sync_entry, typeVars, inferVars, genVars,
                   compileVars, processVars>>

ParserAdvance ==
    /\ rphase \in {"created", "driven", "synchronized"}
    /\ ~parser_check(lexer2.tokens, parser, "TOKEN_EOF")
    /\ parser' = parser_advance(lexer2.tokens, parser)
    /\ rphase' = "driven"
    /\ UNCHANGED <<lexerVars, parserVars, scanVars, parse_result, sync_entry,
                   typeVars, inferVars, genVars,
                   compileVars, processVars>>

\* parser_consume of an expected token on a parser that holds a token
ParserConsume ==
    /\ rphase \in {"driven", "synchronized"}
    /\ parser.current # NullToken
    /\ Len(parser.errors) < MaxErrors
    /\ \E type \in {"TOKEN_SEMICOLON", "TOKEN_IDENTIFIER"} :
          parser' = parser_consume(lexer2.tokens, parser, type, "expected").ps
    /\ rphase' = "driven"
    /\ UNCHANGED <<lexerVars, parserVars, scanVars, parse_result, sync_entry,
                   typeVars, inferVars, genVars,
                   compileVars, processVars>>

\* error recovery: the whole of parser_synchronize
ParserSynchronize ==
    /\ rphase = "driven"
    /\ parser_had_error(parser)
    /\ sync_entry' = parser
    /\ LET r == parser_synchronize(ub, lexer2.tokens, parser)
       IN /\ parser' = r.ps
          /\ rphase' = CASE r.outcome = "returns" -> "synchronized"
                         [] r.outcome = "fault" -> "fault"
                         [] OTHER -> "diverged"
    /\ UNCHANGED <<lexerVars, parserVars, scanVars, parse_result, typeVars, inferVars, genVars,
                   compileVars, processVars>>

DescentNext == ParserParse \/ ParserAdvance \/ ParserConsume \/ ParserSynchronize

SpecDescent == DescentInit /\ [][DescentNext]_vars

(***************************************************************************)
(* The code generator as a state machine: one CodeGenContext is created    *)
(* for a compilation and statements and functions are emitted into it.     *)
(***************************************************************************)
MaxNest == 2        \* deepest nesting of if/while in an emitted statement
MaxEmits == 2       \* codegen_emit_* calls explored on one context

IfNode(condition, then_branch, else_branch) ==
    AstNode("NODE_IF", "", "", <<>>, <<condition, then_branch, else_branch>>)

WhileNode(condition, body) ==
    AstNode("NODE_WHILE", "", "", <<>>, <<condition, body>>)

GenConditions == {ast_create_unary("TOKEN_BANG", ast_create_literal("LITERAL_NULL"))}

\* statements with if/while nested at most d deep; of the two branches of
\* an if one is at most a return
RECURSIVE Statements(_)
Statements(d) ==
    IF d = 0 THEN {ReturnNode(ast_create_literal("LITERAL_INTEGER"))}
    ELSE LET inner == Statements(d - 1)
             shallow == Statements(0)
         IN inner
            \cup {IfNode(c, t, e) :
                    c \in GenConditions, t \in inner, e \in shallow \cup {NullNode}}
            \cup {IfNode(c, t, e) :
                    c \in GenConditions, t \in shallow, e \in inner}
            \cup {WhileNode(c, b) : c \in GenConditions, b \in inner}

\* an if whose two branches are both an if or a while
TwinStatements ==
    {IfNode(c, t, e) :
        c \in GenConditions, t, e \in Statements(1) \ Statements(0)}

\* an if or a while without a condition, without branches, without a body
BareStatements ==
    {IfNode(NullNode, NullNode, NullNode),
     WhileNode(NullNode, NullNode)}
    \cup {IfNode(c, NullNode, NullNode) : c \in GenConditions}
    \cup {WhileNode(c, NullNode) : c \in GenConditions}

GenStatements == Statements(MaxNest) \cup TwinStatements \cup BareStatements

\* a function declaration as codegen_emit_function reads it
FunctionDecl(name, parameters, body, local_size) ==
    [type |-> "NODE_FUNCTION_DECL", lit |-> "", operator |-> "", name |-> name,
     kids |-> Append(parameters, body), local_size |-> local_size]

\* functions without parameters whose body is a block of an if or a while,
\* an empty slot and a return
GenFunctions ==
    {FunctionDecl(name, <<>>, BlockNode(<<a, NullNode, ReturnNode(NullNode)>>), local_size) :
        name \in {<<"f">>, <<"g">>}, a \in Statements(1) \ Statements(0),
        local_size \in {0, 16}}

GenInit ==
    /\ context = codegen_create
    /\ gen_node = NullNode
    /\ gen_entry = codegen_create
    /\ gen_count = 0
    /\ gphase = "created"
    /\ gen_result = ""
    /\ released = <<>>
    /\ IdleLexer /\ IdleParser /\ IdleScan /\ IdleDescent /\ IdleTypes /\ IdleInfer
    /\ IdleCompile /\ IdleProcess

\* the whole of codegen_emit_statement on one statement
EmitStatement ==
    /\ gphase # "idle"
    /\ gen_count < MaxEmits
    /\ \E n \in GenStatements :
          /\ gen_node' = n
          /\ context' = codegen_emit_statement(context, n)
    /\ gen_entry' = context
    /\ gen_count' = gen_count + 1
    /\ gphase' = "statement"
    /\ UNCHANGED <<gen_result, released>>
    /\ UNCHANGED <<lexerVars, parserVars, scanVars, descentVars, typeVars, inferVars,
                   compileVars, processVars>>

\* the whole of codegen_emit_function on one declaration
EmitFunction ==
    /\ gphase # "idle"
    /\ gen_count < MaxEmits
    /\ \E n \in GenFunctions :
          /\ gen_node' = n
          /\ context' = codegen_emit_function(context, n)
    /\ gen_entry' = context
    /\ gen_count' = gen_count + 1
    /\ gphase' = "function"
    /\ UNCHANGED <<gen_result, released>>
    /\ UNCHANGED <<lexerVars, parserVars, scanVars, descentVars, typeVars, inferVars,
                   compileVars, processVars>>

GenNext == EmitStatement \/ EmitFunction

SpecCodegen == GenInit /\ [][GenNext]_vars

(***************************************************************************)
(* Functions and calls: into a fresh context one function declaration      *)
(* with parameters, or one call with arguments, is emitted.                *)
(***************************************************************************)
MaxFnParams == 7    \* most parameters of a function, arguments of a call

\* an identifier as codegen_emit_variable and codegen_emit_function read it
IdentifierNode(name, is_local, offset) ==
    [type |-> "NODE_IDENTIFIER", lit |-> "", operator |-> "", name |-> name,
     kids |-> <<>>, is_local |-> is_local, offset |-> offset]

CallNode(callee, arguments) ==
    AstNode("NODE_CALL", "", "", <<>>, <<callee>> \o arguments)

\* the i-th parameter (from 0) of n: a local in the slot the layout gives it
ParameterAt(n, i, layout) ==
    IdentifierNode(<<"p">> \o DecimalDigits(i), TRUE,
                   IF layout = "ascending" THEN 8 * (i + 1) ELSE 8 * (n - i))

ParameterList(n, layout) == [i \in 1..n |-> ParameterAt(n, i - 1, layout)]

\* parameter lists of up to MaxFnParams identifiers, and the same lists with
\* one entry replaced by NULL or by a node that is no identifier
ParameterLists ==
    UNION {{ParameterList(n, layout)}
           \cup {[ParameterList(n, layout) EXCEPT ![j] = hole] :
                    j \in 1..n, hole \in {NullNode, ast_create_literal("LITERAL_NULL")}} :
           n \in 0..MaxFnParams, layout \in {"ascending", "descending"}}

AbiFunctions ==
    {FunctionDecl(<<"f">>, parameters, body, local_size) :
        parameters \in ParameterLists,
        body \in Statements(1),
        local_size \in {0, 16}}

\* the i-th argument (from 0): a global of its own name
ArgumentAt(i) == IdentifierNode(<<"a">> \o DecimalDigits(i), FALSE, 0)

ArgumentLists ==
    {[i \in 1..k |-> ArgumentAt(i - 1)] : k \in 0..MaxFnParams}

AbiCalls ==
    {CallNode(IdentifierNode(callee, FALSE, 0), arguments) :
        callee \in {<<"f">>, <<"g">>}, arguments \in ArgumentLists}

\* the whole of codegen_emit_function on a declaration with parameters
EmitCallee ==
    /\ gphase = "created"
    /\ \E n \in AbiFunctions :
          /\ gen_node' = n
          /\ context' = codegen_emit_function(context, n)
    /\ gen_entry' = context
    /\ gen_count' = gen_count + 1
    /\ gphase' = "callee"
    /\ UNCHANGED <<gen_result, released>>
    /\ UNCHANGED <<lexerVars, parserVars, scanVars, descentVars, typeVars, inferVars,
                   compileVars, processVars>>

\* the whole of codegen_emit_expression on a call
EmitCall ==
    /\ gphase = "created"
    /\ \E n \in AbiCalls :
          /\ gen_node' = n
          /\ context' = codegen_emit_expression(context, n)
    /\ gen_entry' = context
    /\ gen_count' = gen_count + 1
    /\ gphase' = "call"
    /\ UNCHANGED <<gen_result, released>>
    /\ UNCHANGED <<lexerVars, parserVars, scanVars, descentVars, typeVars, inferVars,
                   compileVars, processVars>>

AbiNext == EmitCallee \/ EmitCall

SpecAbi == GenInit /\ [][AbiNext]_vars

(***************************************************************************)
(* A whole run of the back end: codegen_generate on a program, then the    *)
(* context and the AST are torn down, in either order.  Every string       *)
(* literal node of a program has a text allocation of its own.             *)
(***************************************************************************)
MaxDecls == 2       \* most declarations of a generated program

StringLiteral(text, address) ==
    [type |-> "NODE_LITERAL", lit |-> "LITERAL_STRING", operator |-> "",
     name |-> text, kids |-> <<>>, address |-> address]

\* a binary node as codegen_emit_binary reads it: value_type is as.binary.type
BinaryNode(operator, value_type, left, right) ==
    [type |-> "NODE_BINARY", lit |-> "", operator |-> operator, name |-> <<>>,
     kids |-> <<left, right>>, value_type |-> value_type]

StringTexts == {<<"a">>, <<"b">>}

\* expressions whose string literals have their texts at base and base + 1
StringExpressions(base) ==
    {ast_create_literal("LITERAL_INTEGER")}
    \cup {StringLiteral(t, base) : t \in StringTexts}
    \cup {BinaryNode("TOKEN_EQ", "TYPE_INTEGER",
                     StringLiteral(t, base), StringLiteral(<<"a">>, base + 1)) :
            t \in StringTexts}

\* a block of one statement: an expression or the return of one
StringBodies(base) ==
    {BlockNode(<<e>>) : e \in StringExpressions(base)}
    \cup {BlockNode(<<ReturnNode(e)>>) : e \in StringExpressions(base)}

\* the i-th declaration (from 1): a function, or a declaration of another kind
DeclarationsAt(i) ==
    {FunctionDecl(<<"f">> \o DecimalDigits(i), <<>>, body, 0) :
        body \in StringBodies(2 * i - 1)}
    \cup {ast_create_variable_decl(<<"v">>)}

RECURSIVE DeclarationLists(_)
DeclarationLists(k) ==
    IF k = 0 THEN {<<>>}
    ELSE {Append(ds, d) : ds \in DeclarationLists(k - 1), d \in DeclarationsAt(k)}

\* the programs, and one AST that is no program
GenPrograms ==
    {ast_create_program(ds) : ds \in UNION {DeclarationLists(k) : k \in 0..MaxDecls}}
    \cup {BlockNode(<<>>)}

\* the whole of codegen_generate
Generate ==
    /\ gphase = "created"
    /\ \E ast \in GenPrograms, flushed \in BOOLEAN :
          /\ gen_node' = ast
          /\ context' = codegen_generate(context, ast, flushed).ctx
          /\ gen_result' = codegen_generate(context, ast, flushed).result
    /\ gen_entry' = context
    /\ gen_count' = gen_count + 1
    /\ gphase' = "generated"
    /\ UNCHANGED released
    /\ UNCHANGED <<lexerVars, parserVars, scanVars, descentVars, typeVars, inferVars,
                   compileVars, processVars>>

\* the whole of codegen_destroy
DestroyContext ==
    /\ gphase \in {"generated", "ast destroyed"}
    /\ released' = released \o codegen_destroy(context)
    /\ gphase' = IF gphase = "generated" THEN "context destroyed" ELSE "torn down"
    /\ UNCHANGED <<context, gen_node, gen_entry, gen_count, gen_result>>
    /\ UNCHANGED <<lexerVars, parserVars, scanVars, descentVars, typeVars, inferVars,
                   compileVars, processVars>>

\* the whole of ast_destroy_node on the root
DestroyAst ==
    /\ gphase \in {"generated", "context destroyed"}
    /\ released' = released \o ast_destroy_node(gen_node)
    /\ gphase' = IF gphase = "generated" THEN "ast destroyed" ELSE "torn down"
    /\ UNCHANGED <<context, gen_node, gen_entry, gen_count, gen_result>>
    /\ UNCHANGED <<lexerVars, parserVars, scanVars, descentVars, typeVars, inferVars,
                   compileVars, processVars>>

BackendNext == Generate \/ DestroyContext \/ DestroyAst

SpecBackend == GenInit /\ [][BackendNext]_vars

(***************************************************************************)
(* Operators: binary and unary nodes over integer and float literals are   *)
(* emitted into a context.  as.binary.type of a binary node is an input.   *)
(***************************************************************************)
BinaryOperators ==
    {"TOKEN_PLUS", "TOKEN_MINUS", "TOKEN_STAR", "TOKEN_SLASH", "TOKEN_EQ",
     "TOKEN_NEQ", "TOKEN_LT", "TOKEN_GT", "TOKEN_LE", "TOKEN_GE"}

NumberLiterals ==
    {ast_create_literal("LITERAL_INTEGER"), ast_create_literal("LITERAL_FLOAT")}

OperatorNodes ==
    {BinaryNode(operator, value_type, left, right) :
        operator \in BinaryOperators, value_type \in {"TYPE_INTEGER", "TYPE_FLOAT"},
        left \in NumberLiterals, right \in NumberLiterals}
    \cup {ast_create_unary(operator, operand) :
            operator \in {"TOKEN_MINUS", "TOKEN_BANG"}, operand \in NumberLiterals}

\* the whole of codegen_emit_expression on an operator node
EmitOperator ==
    /\ gphase # "idle"
    /\ gen_count < MaxEmits
    /\ \E n \in OperatorNodes :
          /\ gen_node' = n
          /\ context' = codegen_emit_expression(context, n)
    /\ gen_entry' = context
    /\ gen_count' = gen_count + 1
    /\ gphase' = "operator"
    /\ UNCHANGED <<gen_result, released>>
    /\ UNCHANGED <<lexerVars, parserVars, scanVars, descentVars, typeVars, inferVars,
                   compileVars, processVars>>

OperatorNext == EmitOperator

SpecOperators == GenInit /\ [][OperatorNext]_vars

(***************************************************************************)
(* compile (main.c) as a state machine: its position is the stage it has   *)
(* completed.  Each action is one stage with the clean-up and return that  *)
(* follow a failure of that stage.  An allocation may fail; a field that   *)
(* nothing has written holds NULL or a wild pointer.                       *)
(***************************************************************************)
Create(o, name) == [o EXCEPT ![name].created = @ + 1]

\* one call of lexer_destroy, parser_destroy or ast_destroy_node
Destroy(o, name) == [o EXCEPT ![name].destroyed = @ + 1]

\* a clean-up that leaves the parser alone
RECURSIVE DestroyAllButParser(_, _)
DestroyAllButParser(o, names) ==
    IF names = <<>> THEN o
    ELSE IF Head(names) = "parser" THEN DestroyAllButParser(o, Tail(names))
    ELSE DestroyAllButParser(Destroy(o, Head(names)), Tail(names))

\* the destroy calls before a return, in the order written
RECURSIVE DestroyAll(_, _)
DestroyAll(o, names) ==
    IF names = <<>> THEN o
    ELSE DestroyAll(Destroy(o, Head(names)), Tail(names))

\* lexer_scan ends in return SLANG_SUCCESS and has no other return
lexer_scan_error(src) == "SLANG_SUCCESS"

Ran(stage, result) == Append(stages, [stage |-> stage, result |-> result])

CompileInit ==
    /\ source \in DescentSources
    /\ lexer = lexer_init
    /\ op = "idle"
    /\ token = NoToken
    /\ cphase = "entry"
    /\ stages = <<>>
    /\ objects = NoObjects
    /\ compile_result = ""
    /\ IdleParser /\ IdleScan /\ IdleDescent /\ IdleTypes /\ IdleInfer /\ IdleGen
    /\ IdleProcess

\* lexer_create and lexer_scan, main.c 42-51
CompileLex ==
    /\ cphase = "entry"
    /\ \E allocated \in BOOLEAN :
          IF ~allocated
          THEN /\ compile_result' = "SLANG_ERROR_INTERNAL"
               /\ cphase' = "returned"
               /\ UNCHANGED <<stages, objects, lexer2>>
          ELSE /\ lexer2' = lexer_scan(source)
               /\ stages' = Ran("lexing", lexer_scan_error(source))
               /\ IF lexer_scan_error(source) # "SLANG_SUCCESS"
                  THEN /\ objects' = DestroyAll(Create(objects, "lexer"), <<"lexer">>)
                       /\ compile_result' = lexer_scan_error(source)
                       /\ cphase' = "returned"
                  ELSE /\ objects' = Create(objects, "lexer")
                       /\ cphase' = "lexed"
                       /\ UNCHANGED compile_result
    /\ UNCHANGED <<lexerVars, parserVars, sphase, descentVars, typeVars, inferVars,
                   genVars, processVars>>

\* parser_create and parser_parse, main.c 53-66.  parser_parse creates the
\* program node and destroys it itself before it returns an error; the
\* node's declarations field is unwritten then
CompileParse ==
    /\ cphase = "lexed"
    /\ \E allocated \in {"all", "no parser", "no program node", "no declarations"},
          unwritten \in {"NULL", "wild"} :
          LET r == parser_parse(lexer2.tokens, parser_create(0))
              failed == allocated # "all" \/ r.error \notin {"SLANG_SUCCESS", "diverges"}
              error == IF allocated # "all" THEN "SLANG_ERROR_INTERNAL" ELSE r.error
          IN IF allocated = "no parser"
             THEN /\ objects' = DestroyAll(objects, <<"lexer">>)
                  /\ compile_result' = "SLANG_ERROR_INTERNAL"
                  /\ cphase' = "returned"
                  /\ UNCHANGED <<stages, parser, parse_result>>
             ELSE /\ parser' = IF allocated = "all" THEN r.ps
                               ELSE parser_advance(lexer2.tokens, parser_create(0))
                  /\ parse_result' = IF allocated = "all"
                                     THEN [error |-> r.error, declarations |-> r.declarations]
                                     ELSE [error |-> error, declarations |-> <<>>]
                  /\ IF allocated = "no program node"
                     THEN /\ objects' = DestroyAll(Create(objects, "parser"),
                                                   <<"parser", "lexer">>)
                          /\ stages' = Ran("parsing", error)
                          /\ compile_result' = error
                          /\ cphase' = "returned"
                     ELSE IF failed /\ unwritten = "wild"
                     THEN /\ objects' = Create(Create(objects, "parser"), "ast")
                          /\ cphase' = "fault"
                          /\ UNCHANGED <<stages, compile_result>>
                     ELSE IF failed
                     THEN /\ objects' = DestroyAll(Create(Create(objects, "parser"), "ast"),
                                                   <<"ast", "parser", "lexer">>)
                          /\ stages' = Ran("parsing", error)
                          /\ compile_result' = error
                          /\ cphase' = "returned"
                     ELSE IF r.error = "diverges"
                     THEN /\ objects' = Create(Create(objects, "parser"), "ast")
                          /\ cphase' = "diverged"
                          /\ UNCHANGED <<stages, compile_result>>
                     ELSE /\ objects' = Create(Create(objects, "parser"), "ast")
                          /\ stages' = Ran("parsing", "SLANG_SUCCESS")
                          /\ cphase' = "parsed"
                          /\ UNCHANGED compile_result
    /\ UNCHANGED <<lexerVars, parserVars, scanVars, rphase, sync_entry, typeVars,
                   inferVars, genVars, processVars>>

\* type_check and the clean-up, main.c 68-84
CompileCheck ==
    /\ cphase = "parsed"
    /\ LET error == type_check(ast_create_program(parse_result.declarations))
       IN /\ stages' = Ran("type checking", error)
          /\ objects' = DestroyAll(objects, <<"ast", "parser", "lexer">>)
          /\ compile_result' = error
    /\ cphase' = "returned"
    /\ UNCHANGED <<lexerVars, parserVars, scanVars, descentVars, typeVars, inferVars,
                   genVars, processVars>>

CompileNext == CompileLex \/ CompileParse \/ CompileCheck

SpecCompile == CompileInit /\ [][CompileNext]_vars

(***************************************************************************)
(* One process in which lexers are created one after the other and their   *)
(* tokens are fetched with lexer_next_token and lexer_peek_token.  The     *)
(* cursors of the two functions are function-local statics: they belong    *)
(* to the process, not to a lexer.                                         *)
(***************************************************************************)
MaxLexers == 2      \* lexers created in one process
MaxReads == 2       \* calls of lexer_next_token / lexer_peek_token per lexer

ProcessSources == {<<"a">>, <<"f", "n", " ", "a">>, <<";">>}

ProcessInit ==
    /\ statics = NoStatics
    /\ lexers = <<>>
    /\ reads = <<>>
    /\ IdleLexer /\ IdleParser /\ IdleScan /\ IdleDescent /\ IdleTypes /\ IdleInfer
    /\ IdleGen /\ IdleCompile

\* lexer_create and lexer_scan on a source
LexerCreate ==
    /\ Len(lexers) < MaxLexers
    /\ \E src \in ProcessSources : lexers' = Append(lexers, lexer_scan(src).tokens)
    /\ reads' = Append(reads, <<>>)
    /\ UNCHANGED statics
    /\ UNCHANGED <<lexerVars, parserVars, scanVars, descentVars, typeVars, inferVars,
                   genVars, compileVars>>

\* lexer_next_token on the k-th lexer
NextTokenStatic ==
    /\ \E k \in 1..Len(lexers) :
          /\ Len(reads[k]) < MaxReads
          /\ LET r == lexer_next_token_static(lexers[k], statics.next)
             IN /\ statics' = [statics EXCEPT !.next = r.cur]
                /\ reads' = [reads EXCEPT ![k] = Append(@, [fn |-> "next", tok |-> r.tok])]
    /\ UNCHANGED lexers
    /\ UNCHANGED <<lexerVars, parserVars, scanVars, descentVars, typeVars, inferVars,
                   genVars, compileVars>>

\* lexer_peek_token on the k-th lexer
PeekTokenStatic ==
    /\ \E k \in 1..Len(lexers) :
          /\ Len(reads[k]) < MaxReads
          /\ reads' = [reads EXCEPT ![k] =
                Append(@, [fn |-> "peek",
                           tok |-> lexer_peek_token_static(lexers[k], statics.peek)])]
    /\ UNCHANGED <<statics, lexers>>
    /\ UNCHANGED <<lexerVars, parserVars, scanVars, descentVars, typeVars, inferVars,
                   genVars, compileVars>>

ProcessNext == LexerCreate \/ NextTokenStatic \/ PeekTokenStatic

SpecProcess == ProcessInit /\ [][ProcessNext]_vars

(***************************************************************************)
(* A type is printed by type_to_string and the string is parsed again by   *)
(* parser_parse_type on a fresh lexer.                                     *)
(***************************************************************************)
MaxTypeDepth == 2   \* deepest nesting of arrays and tuples in a printed type

PrintedScalars ==
    {Scalar(k) : k \in {"TYPE_INTEGER", "TYPE_FLOAT", "TYPE_BOOLEAN", "TYPE_STRING"}}
    \cup {NamedType(<<"T">>), NamedType(Chars_int)}

RECURSIVE PrintedTypes(_)
PrintedTypes(d) ==
    IF d = 0 THEN PrintedScalars
    ELSE LET inner == PrintedTypes(d - 1)
         IN inner
            \cup {ArrayType(e) : e \in inner}
            \cup {TupleType(<<>>)}
            \cup {TupleType(<<e>>) : e \in inner}
            \cup {TupleType(<<a, b>>) : a \in inner, b \in PrintedScalars}

RoundTripInit ==
    /\ type1 \in PrintedTypes(MaxTypeDepth)
    /\ type2 = NullType
    /\ compat_result = FALSE
    /\ own_result = FALSE
    /\ tphase = "chosen"
    /\ source = <<>>
    /\ lexer = lexer_init
    /\ op = "idle"
    /\ token = NoToken
    /\ ub \in UBOutcomes
    /\ stmt_result = NoResult
    /\ expr_result = NoResult
    /\ fn_result = NoResult
    /\ pphase = "idle"
    /\ IdleInfer /\ IdleScan /\ IdleDescent /\ IdleGen /\ IdleCompile /\ IdleProcess

\* the whole of type_to_string on type1
TypeToString ==
    /\ tphase = "chosen"
    /\ source' = type_to_string(type1)
    /\ tphase' = "printed"
    /\ UNCHANGED <<lexer, op, token, type1, type2, compat_result, own_result,
                   parserVars, inferVars, scanVars, descentVars, genVars,
                   compileVars, processVars>>

\* the whole of parser_parse_type on the printed string; type2 is the Type
\* it wrote, NULL when it returned an error
ParseType ==
    /\ tphase = "printed"
    /\ LET r == parser_parse_type(ub, source, lexer_init)
       IN /\ expr_result' = r
          /\ lexer' = r.lx
          /\ type2' = IF r.err = "" THEN r.node ELSE NullType
    /\ tphase' = "parsed"
    /\ UNCHANGED <<source, op, token, type1, compat_result, own_result,
                   ub, stmt_result, fn_result, pphase,
                   inferVars, scanVars, descentVars, genVars,
                   compileVars, processVars>>

RoundTripNext == TypeToString \/ ParseType

SpecRoundTrip == RoundTripInit /\ [][RoundTripNext]_vars

(***************************************************************************)
(* C1: lexer_peek_token is side-effect-free.  Every peek leaves the        *)
(* current position and the line counter as they were, returns the token   *)
(* the next lexer_next_token would have returned before the peek, and the  *)
(* next lexer_next_token after the peek still returns that token (kind,    *)
(* start, length, line and value).                                         *)
(***************************************************************************)
C1_PeekSideEffectFree ==
    [][op' = "peek" =>
          /\ lexer'.current = lexer.current
          /\ lexer'.line = lexer.line
          /\ token' = lexer_next_token(source, lexer).token
          /\ lexer_next_token(source, lexer').token
                = lexer_next_token(source, lexer).token]_vars

(***************************************************************************)
(* C2: expression parsing respects operator precedence.  For the text      *)
(* `1 <op1> 2 <op2> 3` with operators of different precedence levels the   *)
(* parser returns the binary tree that groups the tighter operator first   *)
(* (multiplicative over additive over relational over equality over        *)
(* logical); `1 + 2 * 3` yields 1 + (2 * 3).                               *)
(***************************************************************************)
Prec(o) ==
    CASE o \in {<<"*">>, <<"/">>, <<"%">>} -> 5
      [] o \in {<<"+">>, <<"-">>} -> 4
      [] o \in {<<"<">>, <<"<","=">>, <<">">>, <<">","=">>} -> 3
      [] o \in {<<"=","=">>, <<"!","=">>} -> 2
      [] o \in {<<"a","n","d">>, <<"o","r">>} -> 1

PrecedenceTree(op1, op2) ==
    LET one == create_integer_literal_node(1)
        two == create_integer_literal_node(2)
        three == create_integer_literal_node(3)
    IN IF Prec(op2) > Prec(op1)
       THEN create_binary_expression_node(one, op1,
                create_binary_expression_node(two, op2, three))
       ELSE create_binary_expression_node(
                create_binary_expression_node(one, op1, two), op2, three)

C2_Precedence ==
    pphase = "expression" =>
        \A op1 \in BinaryOps, op2 \in BinaryOps :
            (Prec(op1) # Prec(op2) /\ source = ExprSource(op1, op2)) =>
                /\ expr_result.err = ""
                /\ expr_result.node = PrecedenceTree(op1, op2)

(***************************************************************************)
(* C3: literals round-trip through lexing and parsing.  Parsing            *)
(* `let x = <lit>;` succeeds with a let statement whose initializer is an  *)
(* integer literal node of value n for the integer literal n, a float      *)
(* literal node of the same value for a float literal, and a string        *)
(* literal node holding the bytes between the quotes for a string literal. *)
(***************************************************************************)
LiteralNode(lit) ==
    IF lit \in IntLits THEN create_integer_literal_node(DigitsVal(lit))
    ELSE IF lit \in FloatLits THEN create_float_literal_node(atof(lit))
    ELSE create_string_literal_node(SubSeq(lit, 2, Len(lit) - 1))

C3_LiteralRoundTrip ==
    pphase = "statement" =>
        \A lit \in Literals :
            source = LetSource(KwLet, lit) =>
                /\ stmt_result.err = ""
                /\ stmt_result.node.type = "NODE_LET_STATEMENT"
                /\ stmt_result.node.kids[1] = LiteralNode(lit)

(***************************************************************************)
(* C4: numeric widening is part of compatibility.  For two types with      *)
(* different discriminants type_is_compatible_with returns true exactly    *)
(* when one is Int and the other Float, in either order.                   *)
(***************************************************************************)
C4_NumericWidening ==
    (tphase = "compatible" /\ type1.kind # "NULL" /\ type2.kind # "NULL"
        /\ type1.kind # type2.kind) =>
        (compat_result <=> {type1.kind, type2.kind} = {"TYPE_INTEGER", "TYPE_FLOAT"})

(***************************************************************************)
(* C5: compatibility is symmetric on the numeric scalars.  For a, b in     *)
(* {Int, Float} the value type_is_compatible_with(a, b) returned equals    *)
(* type_is_compatible_with(b, a).                                          *)
(***************************************************************************)
C5_NumericSymmetry ==
    (tphase = "compatible" /\ type1 \in {TInt, TFloat} /\ type2 \in {TInt, TFloat}) =>
        compat_result = type_is_compatible_with(type2, type1)

C5_Witness ==
    /\ tphase = "compatible"
    /\ type1 = TInt
    /\ type2 = TFloat
    /\ compat_result = type_is_compatible_with(TFloat, TInt)

(***************************************************************************)
(* C6: shape strictness.  Two composite types of the same kind whose       *)
(* shapes differ (vector dimension, matrix rows or columns, tensor         *)
(* dimension count or any tensor dimension, tuple arity, function          *)
(* parameter count) are never compatible, whatever their element types.    *)
(***************************************************************************)
ShapeDiffers(t1, t2) ==
    /\ t1.kind = t2.kind
    /\ \/ t1.kind \in {"TYPE_VECTOR", "TYPE_MATRIX", "TYPE_TENSOR"} /\ t1.dims # t2.dims
       \/ t1.kind \in {"TYPE_TUPLE", "TYPE_FUNCTION"} /\ Len(t1.elems) # Len(t2.elems)

C6_ShapeStrictness ==
    (tphase = "compatible" /\ ShapeDiffers(type1, type2)) => compat_result = FALSE

C6_Witness ==
    /\ tphase = "compatible"
    /\ type1 = VectorType(3, TInt)
    /\ type2 = VectorType(4, TInt)
    /\ compat_result = FALSE

(***************************************************************************)
(* C7: priority is not part of a function type's identity.  Two function   *)
(* types with the same parameter count, pairwise compatible parameter      *)
(* types and compatible return types are reported compatible by            *)
(* type_is_compatible_with and by type_can_own, whatever their priorities. *)
(***************************************************************************)
SameFunctionShape(t1, t2) ==
    /\ t1.kind = "TYPE_FUNCTION"
    /\ t2.kind = "TYPE_FUNCTION"
    /\ parameter_count(t1) = parameter_count(t2)
    /\ \A i \in 1..parameter_count(t1) :
            type_is_compatible_with(t1.elems[i], t2.elems[i])
    /\ type_is_compatible_with(return_type(t1), return_type(t2))

C7_PriorityNotIdentity ==
    SameFunctionShape(type1, type2) =>
        /\ tphase = "compatible" => compat_result = TRUE
        /\ tphase = "own" => own_result = TRUE

C7_Witness ==
    /\ tphase = "compatible"
    /\ SameFunctionShape(type1, type2)
    /\ parameter_count(type1) = 2
    /\ type1.prio = 1
    /\ type2.prio = 2
    /\ compat_result = TRUE

(***************************************************************************)
(* C8: arithmetic inference yields the wider operand type.  For a binary   *)
(* node with operator + - * / whose operands infer to Int or Float,        *)
(* type_infer returns Int when both are Int and Float when at least one    *)
(* is Float, whichever side it is on; with an operand that is not numeric  *)
(* it reports failure (NULL).                                              *)
(***************************************************************************)
C8_ArithmeticWidening ==
    (iphase = "infer" /\ node.type = "NODE_BINARY" /\ node.operator \in ArithmeticOps) =>
        LET l == type_infer(node.kids[1])
            r == type_infer(node.kids[2])
            numeric == {"TYPE_INTEGER", "TYPE_FLOAT"}
        IN IF l.kind \in numeric /\ r.kind \in numeric
           THEN inferred = IF "TYPE_FLOAT" \in {l.kind, r.kind} THEN TFloat ELSE TInt
           ELSE inferred = NullType

(***************************************************************************)
(* C9: comparison inference.  For a binary node with operator == != < >    *)
(* <= >= whose operands infer to compatible types, the Int/Float pair      *)
(* included, type_infer returns Bool; otherwise it reports failure (NULL). *)
(***************************************************************************)
SpecCompatible(l, r) ==
    \/ type_is_compatible_with(l, r)
    \/ {l.kind, r.kind} = {"TYPE_INTEGER", "TYPE_FLOAT"}

C9_ComparisonBool ==
    (iphase = "infer" /\ node.type = "NODE_BINARY" /\ node.operator \in ComparisonOps) =>
        LET l == type_infer(node.kids[1])
            r == type_infer(node.kids[2])
        IN IF SpecCompatible(l, r) THEN inferred = TBool ELSE inferred = NullType

(***************************************************************************)
(* C10: scenario A.  type_check on the program root of                     *)
(* `fn add(a: int, b: int) -> int { return a + b; }` returns success and   *)
(* the return expression a + b is inferred as Int.                         *)
(***************************************************************************)
C10_ScenarioA ==
    /\ (iphase = "check" /\ node = ScenarioA) => check_result = "SLANG_SUCCESS"
    /\ (iphase = "infer" /\ node = ReturnExprA) => inferred = TInt

(***************************************************************************)
(* C11: scenario D, priority disambiguation.  Of two function             *)
(* declarations with the same name and identical parameter and return      *)
(* shapes, the one with the higher priority takes the call: type_can_own   *)
(* answers true for (higher, lower) and false for (lower, higher); with    *)
(* equal priorities neither takes it (the ambiguity case), so              *)
(* type_can_own answers false in both orders.                              *)
(***************************************************************************)
C11_PriorityDisambiguation ==
    (tphase = "own" /\ SameFunctionShape(type1, type2)) =>
        own_result = (type1.prio > type2.prio)

(***************************************************************************)
(* C12: an unterminated string literal yields one error token and the      *)
(* lexer stops at the end of the input.  A token started at a `"` that no  *)
(* later `"` closes is returned by lexer_next_token as an error token,     *)
(* with the position exactly at the end of the source, and the next token  *)
(* is end-of-input.  For the scanning lexer, on a source that ends inside  *)
(* a string literal lexer_scan pushes exactly one error token for the      *)
(* literal, directly followed by the final end-of-input token, and stops   *)
(* at the terminating NUL.                                                 *)
(***************************************************************************)
\* the token that starts at index i of src is a `"` with no closing `"`
StartsUnterminated(src, i) ==
    /\ CharAt(src, i) = "\""
    /\ \A j \in (i + 1)..(Len(src) - 1) : CharAt(src, j) # "\""

\* the source read from index i on in the given mode ends inside a string
RECURSIVE EndsInString(_, _, _)
EndsInString(src, i, mode) ==
    IF i > Len(src) THEN mode = "string"
    ELSE IF mode = "string"
        THEN EndsInString(src, i + 1, IF src[i] = "\"" THEN "code" ELSE "string")
    ELSE IF mode = "comment"
        THEN EndsInString(src, i + 1, IF src[i] = "\n" THEN "code" ELSE "comment")
    ELSE IF src[i] = "\"" THEN EndsInString(src, i + 1, "string")
    ELSE IF src[i] = "/" /\ i < Len(src) /\ src[i + 1] = "/"
        THEN EndsInString(src, i + 2, "comment")
    ELSE EndsInString(src, i + 1, "code")

StringErrors(toks) ==
    {k \in 1..Len(toks) : /\ toks[k].type = "TOKEN_ERROR"
                          /\ toks[k].lexeme # <<>>
                          /\ toks[k].lexeme[1] = "\""}

C12_UnterminatedString ==
    /\ (op = "next" /\ StartsUnterminated(source, lexer.start)) =>
            /\ token.type = "TOKEN_ERROR"
            /\ lexer.current = Len(source)
            /\ lexer_next_token(source, lexer).token.type = "TOKEN_EOF"
    /\ (sphase = "scanned" /\ EndsInString(source, 1, "code")) =>
            /\ Len(lexer2.tokens) >= 2
            /\ lexer2.tokens[Len(lexer2.tokens)].type = "TOKEN_EOF"
            /\ StringErrors(lexer2.tokens) = {Len(lexer2.tokens) - 1}
            /\ lexer2.current = Len(source)

C12_Witness ==
    /\ op = "next"
    /\ StartsUnterminated(source, lexer.start)
    /\ token.type = "TOKEN_ERROR"
    /\ sphase = "scanned"
    /\ EndsInString(source, 1, "code")
    /\ Len(source) = 3
    /\ Len(lexer2.tokens) = 3

(***************************************************************************)
(* C13: one-character lookahead resolves the operator pairs = ==, ! !=,    *)
(* < <=, > >= and - ->.  For a source that begins with one of the five     *)
(* operator characters, the first token is a single operator token that    *)
(* covers both characters when the second character of the pair follows    *)
(* immediately and exactly the one character otherwise; it is neither an   *)
(* error nor end-of-input, and the two-character kind differs from the     *)
(* one-character kind.  This holds for lexer_next_token and for the        *)
(* tokens pushed by lexer_scan.                                            *)
(***************************************************************************)
SecondChar(c) == IF c = "-" THEN ">" ELSE "="

\* the number of characters of the operator at the head of src
OperatorLength(src) ==
    IF Len(src) >= 2 /\ src[2] = SecondChar(src[1]) THEN 2 ELSE 1

BeginsWithOperator(src) == src # <<>> /\ src[1] \in OperatorChars

C13_OperatorLookahead ==
    /\ (op = "next" /\ lexer.start = 0 /\ BeginsWithOperator(source)) =>
            /\ token.type \notin {"TOKEN_ERROR", "TOKEN_EOF"}
            /\ lexer.current = OperatorLength(source)
            /\ OperatorLength(source) = 2 =>
                    token.type # lexer_next_token(<<source[1]>>, lexer_init).token.type
    /\ (sphase = "scanned" /\ BeginsWithOperator(source)) =>
            /\ lexer2.tokens[1].type \notin {"TOKEN_ERROR", "TOKEN_EOF"}
            /\ lexer2.tokens[1].lexeme = SubSeq(source, 1, OperatorLength(source))
            /\ OperatorLength(source) = 2 =>
                    lexer2.tokens[1].type # lexer_scan(<<source[1]>>).tokens[1].type

(***************************************************************************)
(* C14: keyword recognition is maximal-munch over the keyword set fn let   *)
(* if else while for in return match type priority.  For a source that is  *)
(* one word (letters, digits and underscores, not starting with a digit)   *)
(* the lexer scans the whole word as one token, and that token is a        *)
(* keyword token exactly when the word is one of the keywords; a word      *)
(* that only starts with a keyword is an identifier token.  This holds     *)
(* for lexer_next_token and for the tokens pushed by lexer_scan.           *)
(***************************************************************************)
IsWord(src) ==
    /\ src # <<>>
    /\ isalpha(src[1]) \/ src[1] = "_"
    /\ \A i \in 1..Len(src) : isalnum(src[i]) \/ src[i] = "_"

C14_KeywordRecognition ==
    /\ (op = "next" /\ lexer.start = 0 /\ IsWord(source)) =>
            /\ lexer.current = Len(source)
            /\ token.type # "TOKEN_IDENTIFIER" <=> source \in LanguageKeywords
    /\ (sphase = "scanned" /\ IsWord(source)) =>
            /\ lexer2.tokens[1].lexeme = source
            /\ lexer2.tokens[1].type # "TOKEN_IDENTIFIER" <=> source \in LanguageKeywords

(***************************************************************************)
(* C15: a trailing comma in a parameter list is a syntax error.  For the   *)
(* declaration `fn f(a: T, ...) -> T {...}` with one or more parameters,   *)
(* parser_parse_function returns a syntax error when a comma stands        *)
(* directly before the closing parenthesis; without that comma it          *)
(* succeeds and the recorded parameters are the declared ones in source    *)
(* order.                                                                  *)
(***************************************************************************)
SyntaxErrors ==
    {"Expected 'fn' keyword", "Expected identifier", "Unexpected token",
     "Expected type", "Expected number", "Expected '{'", "Expected expression"}

ParameterNames(f) == [i \in 1..Len(f.parameters) |-> f.parameters[i].name]

C15_TrailingComma ==
    pphase = "function" =>
        \A n \in 1..MaxParams, t \in BOOLEAN, b \in FunctionBodies :
            source = FunctionSource(n, t, b) =>
                IF t THEN fn_result.err \in SyntaxErrors
                ELSE /\ fn_result.err = ""
                     /\ ParameterNames(fn_result.node) = [i \in 1..n |-> <<ParamNames[i]>>]

(***************************************************************************)
(* C16: synchronization postcondition.  From any parser state reached      *)
(* after a syntax error, parser_synchronize returns without reading        *)
(* through a missing (NULL) current or previous token; when it returns,    *)
(* the current token is end-of-input, or the previously consumed token is  *)
(* `;`, or the current token is a statement/declaration-starting keyword;  *)
(* and no token it skipped was itself such a resumption point.             *)
(***************************************************************************)
SynchronizeCalled ==
    /\ rphase \in {"synchronized", "fault", "diverged"}
    /\ parser_had_error(sync_entry)

\* the parser with `previous` and `current` is at a point where parsing resumes
ResumptionPoint(toks, previous, current) ==
    \/ current # NullToken /\ toks[current].type = "TOKEN_EOF"
    \/ previous # NullToken /\ toks[previous].type = "TOKEN_SEMICOLON"
    \/ current # NullToken /\ toks[current].type \in SyncKeywords

\* every token between the entry and the return was no resumption point
NothingDiscardedBeyond ==
    \A k \in sync_entry.current .. parser.current - 1 :
        ~ResumptionPoint(lexer2.tokens,
                         IF k = sync_entry.current THEN sync_entry.previous ELSE k - 1,
                         k)

C16_SynchronizePostcondition ==
    SynchronizeCalled =>
        /\ rphase = "synchronized"
        /\ parser.null_deref = sync_entry.null_deref
        /\ ResumptionPoint(lexer2.tokens, parser.previous, parser.current)
        /\ NothingDiscardedBeyond

(***************************************************************************)
(* C17: a single syntax error does not abort the parse.  When the first    *)
(* construct of the program is malformed (its first token starts no        *)
(* declaration and no statement) and well-formed declarations follow it,   *)
(* parser_parse returns, a Syntax diagnostic has been recorded for the     *)
(* malformed construct, and the returned program holds a declaration for   *)
(* each well-formed declaration that follows.                              *)
(***************************************************************************)
\* the token at index k starts a declaration or a statement
StartsConstruct(toks, k) ==
    \E j \in 1..Len(DeclarationKeywords) \cup 1..Len(StatementKeywords) :
        \/ j <= Len(DeclarationKeywords) /\ toks[k].type = DeclarationKeywords[j]
        \/ j <= Len(StatementKeywords) /\ toks[k].type = StatementKeywords[j]

\* one malformed token, then only `fn` declarations up to the end of input
MalformedThenDeclarations(toks) ==
    /\ Len(toks) >= 3
    /\ ~StartsConstruct(toks, 1)
    /\ \A k \in 2..Len(toks) - 1 : toks[k].type = "TOKEN_FN"

C17_ErrorDoesNotAbort ==
    (rphase \in {"parsed", "diverged"} /\ parse_result # NoParse
        /\ MalformedThenDeclarations(lexer2.tokens)) =>
        /\ rphase = "parsed"
        /\ parse_result.error = "SLANG_SUCCESS"
        /\ \E e \in 1..Len(parser.errors) : parser.errors[e].type = "ERROR_SYNTAX"
        /\ Len(parse_result.declarations) = Len(lexer2.tokens) - 2

(***************************************************************************)
(* C18: label uniqueness.  Within one CodeGenContext the label counter     *)
(* never decreases, every label codegen_new_label returns differs from     *)
(* all labels it returned earlier in the compilation, and no label is      *)
(* defined twice in the output, across functions and across nested         *)
(* if/while statements.                                                    *)
(***************************************************************************)
\* the indices of the lines of out that define a label
LabelDefinitions(out) == {i \in 1..Len(out) : out[i].op = "label"}

C18_LabelUniqueness ==
    /\ context.label_counter >= gen_entry.label_counter
    /\ Len(context.returned) = context.label_counter
    /\ \A i, j \in 1..Len(context.returned) :
          context.returned[i] = context.returned[j] => i = j
    /\ \A i, j \in LabelDefinitions(context.output) :
          context.output[i].arg = context.output[j].arg => i = j
    /\ \A i \in LabelDefinitions(context.output) :
          \E k \in 1..Len(context.returned) : context.returned[k] = context.output[i].arg

\* a second function emitted into one context, both holding an if or a
\* while
C18_Witness ==
    /\ gphase = "function"
    /\ \E i \in 1..Len(gen_entry.output) : gen_entry.output[i].op = "function"
    /\ gen_entry.label_counter >= 2
    /\ context.label_counter >= gen_entry.label_counter + 2
    /\ Cardinality(LabelDefinitions(context.output)) = context.label_counter

(***************************************************************************)
(* C19: if lowering order.  For an if node with a condition the lines      *)
(* emitted are exactly: the condition code, the comparison and the         *)
(* conditional jump to the else label, the then-branch code, the           *)
(* unconditional jump to the end label, the definition of the else label,  *)
(* the else-branch code (possibly empty), the definition of the end        *)
(* label.  Both labels are fresh (different from each other and from       *)
(* every label written before), each is defined exactly once, and the      *)
(* jumps of the if itself target these two labels.                         *)
(***************************************************************************)
\* the lines the last call appended
Emitted == SubSeq(context.output, Len(gen_entry.output) + 1, Len(context.output))

\* the code of an expression, of a statement, emitted on its own into ctx
ExpressionCode(ctx, n) == codegen_emit_expression([ctx EXCEPT !.output = <<>>], n).output

StatementCode(ctx, n) == codegen_emit_statement([ctx EXCEPT !.output = <<>>], n).output

\* the label name appears in a line of out, as a definition or as a target
Mentions(out, name) ==
    \E i \in 1..Len(out) : out[i].op \in {"label", "je", "jmp"} /\ out[i].arg = name

DefinedOnce(out, name) ==
    Cardinality({i \in LabelDefinitions(out) : out[i].arg = name}) = 1

FreshPair(a, b) ==
    /\ a # b
    /\ ~Mentions(gen_entry.output, a)
    /\ ~Mentions(gen_entry.output, b)
    /\ DefinedOnce(context.output, a)
    /\ DefinedOnce(context.output, b)

IfEmitted ==
    /\ gphase = "statement"
    /\ gen_node.type = "NODE_IF"
    /\ gen_node.kids[1] # NullNode

\* the context in which a branch is emitted: two labels further, and after
\* the statement emitted before it
AfterLabels(ctx) == [ctx EXCEPT !.label_counter = @ + 2]

C19_IfLowering ==
    IfEmitted =>
        \E a, b \in {Emitted[i].arg : i \in 1..Len(Emitted)} :
            /\ FreshPair(a, b)
            /\ Emitted =
                  ExpressionCode(gen_entry, gen_node.kids[1])
                  \o <<Ins("cmp rax, 0", <<>>), Ins("je", a)>>
                  \o StatementCode(AfterLabels(gen_entry), gen_node.kids[2])
                  \o <<Ins("jmp", b), Ins("label", a)>>
                  \o StatementCode(
                        codegen_emit_statement(AfterLabels(gen_entry), gen_node.kids[2]),
                        gen_node.kids[3])
                  \o <<Ins("label", b)>>

\* an if with an else branch and a nested if or while in its then branch,
\* emitted into a context that already holds labels
C19_Witness ==
    /\ IfEmitted
    /\ gen_node.kids[2].type \in {"NODE_IF", "NODE_WHILE"}
    /\ gen_node.kids[3] # NullNode
    /\ gen_entry.label_counter > 0
    /\ context.label_counter >= gen_entry.label_counter + 4

(***************************************************************************)
(* C20: while lowering order.  For a while node with a condition the       *)
(* lines emitted are exactly: the definition of the loop-start label, the  *)
(* condition code, the comparison and the conditional jump to the exit     *)
(* label, the body code, the unconditional jump back to the loop-start     *)
(* label, the definition of the exit label.  The back jump targets the     *)
(* label defined before the condition code.                                *)
(***************************************************************************)
WhileEmitted ==
    /\ gphase = "statement"
    /\ gen_node.type = "NODE_WHILE"
    /\ gen_node.kids[1] # NullNode

C20_WhileLowering ==
    WhileEmitted =>
        \E s, x \in {Emitted[i].arg : i \in 1..Len(Emitted)} :
            /\ FreshPair(s, x)
            /\ Emitted =
                  <<Ins("label", s)>>
                  \o ExpressionCode(gen_entry, gen_node.kids[1])
                  \o <<Ins("cmp rax, 0", <<>>), Ins("je", x)>>
                  \o StatementCode(AfterLabels(gen_entry), gen_node.kids[2])
                  \o <<Ins("jmp", s), Ins("label", x)>>

\* a while whose body holds a nested if or while, emitted into a context
\* that already holds labels
C20_Witness ==
    /\ WhileEmitted
    /\ gen_node.kids[2].type \in {"NODE_IF", "NODE_WHILE"}
    /\ gen_entry.label_counter > 0
    /\ context.label_counter >= gen_entry.label_counter + 4

(***************************************************************************)
(* C21: function emission phases and parameter marshaling.  For a          *)
(* function declaration with a name, codegen_emit_function writes, in      *)
(* this order: the prologue (the name line, push rbp, mov rbp, rsp, and    *)
(* sub rsp, local_size when local_size is positive), the parameter moves,  *)
(* the body, the epilogue (mov rsp, rbp, pop rbp, ret).  Parameter i < 6   *)
(* is stored to its own slot from the i-th of rdi, rsi, rdx, rcx, r8, r9;  *)
(* parameter i >= 6 is loaded from [rbp + 16 + (i - 6) * 8] and stored to  *)
(* its own slot.                                                           *)
(***************************************************************************)
ArgumentRegisters == <<"rdi", "rsi", "rdx", "rcx", "r8", "r9">>

\* the lines that bring parameter i (from 0), the node p, to its slot
ExpectedMove(p, i) ==
    IF p = NullNode \/ p.type # "NODE_IDENTIFIER" THEN <<>>
    ELSE IF i < 6
    THEN <<Ins("mov [rbp - %zu], %s", DecimalDigits(p.offset) \o <<ArgumentRegisters[i + 1]>>)>>
    ELSE <<Ins("mov rax, [rbp + %zu]", DecimalDigits(16 + (i - 6) * 8)),
           Ins("mov [rbp - %zu], rax", DecimalDigits(p.offset))>>

RECURSIVE ExpectedMoves(_, _)
ExpectedMoves(parameters, n) ==
    IF n = 0 THEN <<>>
    ELSE ExpectedMoves(parameters, n - 1) \o ExpectedMove(parameters[n], n - 1)

CalleeEmitted == gphase = "callee" /\ gen_node.type = "NODE_FUNCTION_DECL"

C21_FunctionEmission ==
    CalleeEmitted =>
        Emitted =
            <<Ins("function", gen_node.name), Ins("push rbp", <<>>),
              Ins("mov rbp, rsp", <<>>)>>
            \o (IF gen_node.local_size > 0
                THEN <<Ins("sub rsp, %zu", DecimalDigits(gen_node.local_size))>>
                ELSE <<>>)
            \o ExpectedMoves(gen_node.kids, Len(gen_node.kids) - 1)
            \o StatementCode(gen_entry, gen_node.kids[Len(gen_node.kids)])
            \o <<Ins("mov rsp, rbp", <<>>), Ins("pop rbp", <<>>), Ins("ret", <<>>)>>

\* a function with a register parameter, a stack parameter, a reserved
\* frame and a body that holds an if or a while
C21_Witness ==
    /\ CalleeEmitted
    /\ Len(gen_node.kids) - 1 >= 7
    /\ \A i \in 1..Len(gen_node.kids) - 1 : gen_node.kids[i].type = "NODE_IDENTIFIER"
    /\ gen_node.kids[1].offset > gen_node.kids[7].offset
    /\ gen_node.local_size > 0
    /\ gen_node.kids[Len(gen_node.kids)].type \in {"NODE_IF", "NODE_WHILE"}

(***************************************************************************)
(* C30: caller and callee agree on argument placement.  For a call with k  *)
(* arguments lowered by codegen_emit_call and a function with k            *)
(* parameters lowered by codegen_emit_function, argument i is, at the      *)
(* entry of the callee, exactly where the callee's marshaling reads        *)
(* parameter i (the i-th argument register for i < 6, the slot at          *)
(* [rbp + 16 + (i - 6) * 8] for i >= 6), and the call sequence gives back  *)
(* to the stack pointer exactly the bytes its pushes took.                 *)
(***************************************************************************)
\* the names pushed by the lines of out up to `call rax`, the first pushed
\* first: rax holds the global loaded last
RECURSIVE PushedBeforeCall(_, _, _, _)
PushedBeforeCall(out, i, rax, stack) ==
    IF i > Len(out) \/ out[i].op = "call rax" THEN stack
    ELSE IF out[i].op = "mov rax, [rel %s]"
    THEN PushedBeforeCall(out, i + 1, out[i].arg, stack)
    ELSE IF out[i].op = "push rax"
    THEN PushedBeforeCall(out, i + 1, rax, Append(stack, rax))
    ELSE PushedBeforeCall(out, i + 1, rax, stack)

\* where the caller's code leaves the argument called name, as the callee
\* sees it after push rbp and mov rbp, rsp: the last push lies at rbp + 16.
\* The caller's lines are loads, pushes, the call and the add; none of them
\* writes an argument register
CallerPlaces(out, name) ==
    Let(PushedBeforeCall(out, 1, <<>>, <<>>), LAMBDA stack :
    IF \E p \in 1..Len(stack) : stack[p] = name
    THEN [kind |-> "stack",
          place |-> DecimalDigits(16 + 8 * (Len(stack) -
                        (CHOOSE p \in 1..Len(stack) : stack[p] = name)))]
    ELSE [kind |-> "nowhere", place |-> <<>>])

\* the line of out that stores to the slot at offset
StoresTo(out, i, offset) ==
    \/ /\ out[i].op = "mov [rbp - %zu], %s"
       /\ SubSeq(out[i].arg, 1, Len(out[i].arg) - 1) = DecimalDigits(offset)
    \/ /\ out[i].op = "mov [rbp - %zu], rax"
       /\ out[i].arg = DecimalDigits(offset)

\* where the callee's code takes the value it stores to the slot at offset
CalleeReads(out, offset) ==
    IF \E i \in 1..Len(out) : StoresTo(out, i, offset)
    THEN Let(CHOOSE i \in 1..Len(out) : StoresTo(out, i, offset), LAMBDA i :
         IF out[i].op = "mov [rbp - %zu], %s"
         THEN [kind |-> "register", place |-> <<out[i].arg[Len(out[i].arg)]>>]
         ELSE [kind |-> "stack", place |-> out[i - 1].arg])
    ELSE [kind |-> "nowhere", place |-> <<>>]

\* the lines of a function of k parameters, parameter i in the slot 8 * (i + 1)
CalleeOf(k) ==
    codegen_emit_function(codegen_create,
        FunctionDecl(<<"f">>, ParameterList(k, "ascending"), NullNode, 0)).output

CallEmitted == gphase = "call" /\ gen_node.type = "NODE_CALL"

C30_CallerCalleeAgree ==
    CallEmitted =>
        /\ \A i \in 0..Len(gen_node.kids) - 2 :
              CallerPlaces(Emitted, ArgumentAt(i).name)
                  = CalleeReads(CalleeOf(Len(gen_node.kids) - 1), 8 * (i + 1))
        /\ Emitted[Len(Emitted)] =
              Ins("add rsp, %zu",
                  DecimalDigits(8 * Len(PushedBeforeCall(Emitted, 1, <<>>, <<>>))))

(***************************************************************************)
(* C22: string pool consistency.  After codegen_generate has succeeded,    *)
(* every label str_<i> that a line of the text section refers to is        *)
(* defined by exactly one line of the data section, that line holds the    *)
(* text of the string literal whose lowering wrote the reference, there    *)
(* is one entry per string literal lowered even when two literals have      *)
(* the same text, and the data section follows every function body.        *)
(***************************************************************************)
\* the string literals of n in the order the generator reaches them: the
\* functions of a program in order, the statements of a block in order, the
\* right operand of a binary node before the left one
RECURSIVE StringsLowered(_)
RECURSIVE StringsLoweredIn(_, _)
StringsLoweredIn(nodes, i) ==
    IF i > Len(nodes) THEN <<>>
    ELSE StringsLowered(nodes[i]) \o StringsLoweredIn(nodes, i + 1)

StringsLowered(n) ==
    IF n = NullNode THEN <<>>
    ELSE CASE n.type = "NODE_LITERAL" ->
                 IF n.lit = "LITERAL_STRING" THEN <<n>> ELSE <<>>
           [] n.type = "NODE_BINARY" ->
                 StringsLowered(n.kids[2]) \o StringsLowered(n.kids[1])
           [] n.type \in {"NODE_PROGRAM", "NODE_FUNCTION_DECL", "NODE_BLOCK",
                          "NODE_RETURN", "NODE_UNARY"} -> StringsLoweredIn(n.kids, 1)
           [] OTHER -> <<>>

IsStringReference(line) == line.op = "lea rax, [rel str_%zu]"

IsStringEntry(line) == line.op = "str_%zu: .asciz \"%s\""

StringReferences == SelectSeq(context.output, IsStringReference)

StringEntries == SelectSeq(context.output, IsStringEntry)

\* the index of the line that opens the data section, 0 when there is none
DataSectionAt ==
    IF \E i \in 1..Len(context.output) : context.output[i].op = "\n.section .data"
    THEN CHOOSE i \in 1..Len(context.output) : context.output[i].op = "\n.section .data"
    ELSE 0

GenerateSucceeded ==
    gphase = "generated" /\ gen_result = "SLANG_SUCCESS"

C22_StringPoolConsistency ==
    GenerateSucceeded =>
        /\ Len(StringReferences) = Len(StringsLowered(gen_node))
        /\ Len(StringEntries) = Len(StringsLowered(gen_node))
        /\ \A j \in 1..Len(StringReferences) :
              /\ Cardinality({k \in 1..Len(StringEntries) :
                                StringEntries[k].arg = StringReferences[j].arg}) = 1
              /\ \A k \in 1..Len(StringEntries) :
                    StringEntries[k].arg = StringReferences[j].arg
                        => StringEntries[k].text = StringsLowered(gen_node)[j].name
        /\ DataSectionAt > 0
        /\ \A i \in 1..Len(context.output) :
              IsStringEntry(context.output[i]) <=> i > DataSectionAt

\* a program with two string literals of the same text has been generated
C22_Witness ==
    /\ GenerateSucceeded
    /\ \E j, k \in 1..Len(StringEntries) :
          /\ j # k
          /\ StringEntries[j].text = StringEntries[k].text
    /\ \E i \in 1..Len(context.output) : context.output[i].op = "ret"

(***************************************************************************)
(* C26: exclusive ownership of string literal text.  Once both the code    *)
(* generation context and the AST of a compilation have been destroyed,    *)
(* the text of every string literal node of the AST has been handed to     *)
(* free exactly once: not twice and not zero times.                        *)
(***************************************************************************)
\* the addresses of the texts of all string literal nodes below n
RECURSIVE TextAddresses(_)
TextAddresses(n) ==
    IF n.type = "NODE_LITERAL"
    THEN IF n.lit = "LITERAL_STRING" THEN {n.address} ELSE {}
    ELSE UNION {TextAddresses(n.kids[i]) : i \in 1..Len(n.kids)}

TimesReleased(address) ==
    Cardinality({i \in 1..Len(released) : released[i] = address})

TornDown == gphase = "torn down"

C26_TextReleasedOnce ==
    TornDown => \A address \in TextAddresses(gen_node) : TimesReleased(address) = 1

(***************************************************************************)
(* C23: type-directed lowering.  The instructions emitted for a binary or  *)
(* unary operator are the floating-point ones (xmm registers, addsd,       *)
(* subsd, mulsd, divsd, comisd) when the operation is float-typed and the  *)
(* integer ones otherwise, never both: no float-typed operation, unary     *)
(* minus on a float included, is lowered with integer instructions.  A     *)
(* binary node is float-typed when its as.binary.type is TYPE_FLOAT, a     *)
(* unary node when the inferred type of its operand is TYPE_FLOAT.         *)
(***************************************************************************)
FloatTyped(n) ==
    IF n.type = "NODE_BINARY" THEN n.value_type = "TYPE_FLOAT"
    ELSE type_infer(n.kids[1]).kind = "TYPE_FLOAT"

\* the lines written for the operands of n, with the push and the pop of a
\* binary node
RECURSIVE OperandLines(_, _)
OperandLines(n, i) ==
    IF i > Len(n.kids) THEN IF n.type = "NODE_BINARY" THEN 2 ELSE 0
    ELSE Len(ExpressionCode(codegen_create, n.kids[i])) + OperandLines(n, i + 1)

\* the lines written for the operator itself
OperatorLines == SubSeq(Emitted, OperandLines(gen_node, 1) + 1, Len(Emitted))

FloatInstructions ==
    {"movq xmm0, rax", "movq xmm1, rbx", "movq rax, xmm0", "addsd xmm0, xmm1",
     "subsd xmm0, xmm1", "mulsd xmm0, xmm1", "divsd xmm0, xmm1", "comisd xmm0, xmm1"}

IntegerInstructions ==
    {"add rax, rbx", "sub rax, rbx", "imul rax, rbx", "cqo", "idiv rbx",
     "cmp rax, rbx", "neg rax", "test rax, rax"}

UsesFloat(lines) == \E i \in 1..Len(lines) : lines[i].op \in FloatInstructions

UsesInteger(lines) == \E i \in 1..Len(lines) : lines[i].op \in IntegerInstructions

\* arithmetic, comparison or negation: logical not has no float form
Arithmetic(n) == n.type = "NODE_BINARY" \/ n.operator = "TOKEN_MINUS"

OperatorEmitted == gphase = "operator"

C23_TypeDirectedLowering ==
    OperatorEmitted /\ Arithmetic(gen_node) =>
        /\ UsesFloat(OperatorLines) <=> FloatTyped(gen_node)
        /\ UsesInteger(OperatorLines) <=> ~FloatTyped(gen_node)

(***************************************************************************)
(* C24: stage gating in compile.  The stages run in the order lexing,      *)
(* parsing, type checking; a stage runs only after every earlier stage     *)
(* has returned success; compile returns success only when all three       *)
(* stages have; and whenever compile has returned, each of the lexer, the  *)
(* parser and the AST that was created has been destroyed exactly once.    *)
(***************************************************************************)
StageOrder == <<"lexing", "parsing", "type checking">>

CompileReturned == cphase = "returned"

C24_StageGating ==
    /\ Len(stages) <= Len(StageOrder)
    /\ \A i \in 1..Len(stages) :
          /\ stages[i].stage = StageOrder[i]
          /\ i > 1 => stages[i - 1].result = "SLANG_SUCCESS"
    /\ compile_result = "SLANG_SUCCESS" =>
          /\ Len(stages) = Len(StageOrder)
          /\ \A i \in 1..Len(stages) : stages[i].result = "SLANG_SUCCESS"
    /\ \A name \in DOMAIN objects :
          /\ objects[name].created <= 1
          /\ objects[name].destroyed <= objects[name].created
          /\ CompileReturned => objects[name].destroyed = objects[name].created

\* compile has returned after all three stages ran and all three objects
\* were created
C24_Witness ==
    /\ CompileReturned
    /\ Len(stages) = 3
    /\ \A name \in DOMAIN objects : objects[name].created = 1

(***************************************************************************)
(* C25: no state is shared across compilations.  For lexers created one    *)
(* after the other in one process, the tokens a lexer hands out through    *)
(* lexer_next_token and lexer_peek_token start at its own first token and  *)
(* are its own tokens in order: the i-th lexer_next_token on a lexer       *)
(* returns its i-th token, however many tokens were read from a lexer      *)
(* created before it.                                                      *)
(***************************************************************************)
\* how many of the first i calls on lexer k were lexer_next_token
NextCalls(k, i) == Cardinality({j \in 1..i : reads[k][j].fn = "next"})

\* the Token pointer the n-th token of lexer k has, NULL past the end
TokenAt(k, n) == IF n <= Len(lexers[k]) THEN n ELSE NullToken

C25_NoSharedCursor ==
    \A k \in 1..Len(lexers) :
        /\ reads[k] # <<>> => reads[k][1].tok = TokenAt(k, 1)
        /\ \A i \in 1..Len(reads[k]) :
              reads[k][i].fn = "next" => reads[k][i].tok = TokenAt(k, NextCalls(k, i))

(***************************************************************************)
(* C27: type stringification round-trips.  For every type built from       *)
(* scalars, named types, arrays and tuples whose type_to_string output     *)
(* parser_parse_type accepts, the type parsed from that output equals the  *)
(* type printed: same discriminant, same name, equal members.              *)
(***************************************************************************)
TypeParsed == tphase = "parsed"

C27_TypeRoundTrip ==
    TypeParsed /\ expr_result.err = "" => type2 = type1

(***************************************************************************)
(* C28: lexer progress and termination.  Every scan_token on a lexer that  *)
(* is not at the end of its input moves the position forward by at least   *)
(* one character, and no call moves it beyond the terminating NUL.         *)
(* lexer_scan returns with a token vector whose last token, and no other,  *)
(* is the end-of-input token, also for sources with unknown characters,    *)
(* unterminated strings or a `//` comment that no newline ends.            *)
(***************************************************************************)
EofOnlyLast(tokens) ==
    /\ tokens # <<>>
    /\ \A i \in 1..Len(tokens) : tokens[i].type = "TOKEN_EOF" <=> i = Len(tokens)

C28_LexerProgress ==
    /\ lexer.current <= Len(source)
    /\ scan_token(source, lexer).lx.current <= Len(source)
    /\ ~is_at_end(source, lexer) =>
          scan_token(source, lexer).lx.current > lexer.current
    /\ sphase = "scanned" =>
          /\ EofOnlyLast(lexer2.tokens)
          /\ lexer2.current = Len(source)

\* a source with an unknown character, an unterminated string and a comment
\* without newline has been scanned by both lexers
C28_Witness ==
    /\ sphase = "scanned"
    /\ op = "next"
    /\ is_at_end(source, lexer)
    /\ \E i \in 1..Len(lexer2.tokens) : lexer2.tokens[i].type = "TOKEN_ERROR"
    /\ \E i \in 1..Len(source) : source[i] \in {"@", "\"", "/"}

(***************************************************************************)
(* C29: parser termination.  On every token sequence that ends in the      *)
(* end-of-input token parser_parse returns, and every iteration of its     *)
(* loop consumes at least one token: whatever the current token is, as     *)
(* long as it is not the end-of-input token, parser_declaration leaves     *)
(* the parser behind that token.                                           *)
(***************************************************************************)
ParseReturns == parse_result.error # "diverges"

IterationConsumes ==
    parser.current # NullToken /\ ~parser_check(lexer2.tokens, parser, "TOKEN_EOF")
        => parser_declaration(lexer2.tokens, parser).ps.next_current > parser.next_current

C29_ParserTerminates == ParseReturns /\ IterationConsumes

====
